---- MODULE Spec2Model ----
(***************************************************************************)
(* Reconcilers of docker-cloudflare-tunnel-sync: tunnel ingress            *)
(* (internal/reconcile), DNS records (internal/dns) and Access             *)
(* applications (internal/access), driven against a remote that stores     *)
(* what is written to it.                                                  *)
(*                                                                         *)
(* Strings that the code lower-cases, trims, concatenates, measures or     *)
(* orders are sequences of byte values; strings that are only compared     *)
(* for equality (identifiers, service addresses) are TLA+ strings.         *)
(***************************************************************************)
EXTENDS Integers, Sequences, FiniteSets, TLC

\* ------------------------------------------------------------------ bounds
MaxRoutes == 2
MaxLive == 3
MaxPasses == 2
MaxRecords == 3
MaxDNSPasses == 2
MaxApps == 2
MaxLiveApps == 3
MaxAccessPasses == 2
MaxTicks == 3

\* --------------------------------------------------------- string helpers
\* strings.ToLower on ASCII bytes
ToLower(s) ==
  [i \in 1..Len(s) |-> IF s[i] >= 65 /\ s[i] <= 90 THEN s[i] + 32 ELSE s[i]]

\* strings.HasSuffix
HasSuffix(s, suffix) ==
  /\ Len(suffix) <= Len(s)
  /\ SubSeq(s, Len(s) - Len(suffix) + 1, Len(s)) = suffix

\* strings.TrimSuffix
TrimSuffix(s, suffix) ==
  IF HasSuffix(s, suffix) /\ Len(suffix) > 0
    THEN SubSeq(s, 1, Len(s) - Len(suffix))
    ELSE s

\* strings.EqualFold on ASCII bytes
EqualFold(a, b) == ToLower(a) = ToLower(b)

\* white space as strings.TrimSpace sees it in ASCII
IsSpace(c) == c \in {9, 10, 11, 12, 13, 32}

\* strings.TrimSpace
RECURSIVE TrimLeft(_)
TrimLeft(s) ==
  IF s # <<>> /\ IsSpace(s[1]) THEN TrimLeft(Tail(s)) ELSE s

RECURSIVE TrimRight(_)
TrimRight(s) ==
  IF s # <<>> /\ IsSpace(s[Len(s)]) THEN TrimRight(SubSeq(s, 1, Len(s) - 1)) ELSE s

TrimSpace(s) == TrimRight(TrimLeft(s))

\* Go's < on strings: byte-wise lexicographic order
RECURSIVE StrLess(_, _)
StrLess(a, b) ==
  IF Len(b) = 0 THEN FALSE
  ELSE IF Len(a) = 0 THEN TRUE
  ELSE IF a[1] < b[1] THEN TRUE
  ELSE IF a[1] > b[1] THEN FALSE
  ELSE StrLess(Tail(a), Tail(b))

\* ----------------------------------------------------------- string data
\* "a.example.com"
h_a == <<97, 46, 101, 120, 97, 109, 112, 108, 101, 46, 99, 111, 109>>
\* "b.example.com"
h_b == <<98, 46, 101, 120, 97, 109, 112, 108, 101, 46, 99, 111, 109>>
\* "a.example.com.au"
h_au == <<97, 46, 101, 120, 97, 109, 112, 108, 101, 46, 99, 111, 109, 46, 97, 117>>
\* "/x"
p_x == <<47, 120>>
\* ""
Empty == <<>>
\* "example.com"
z_example == <<101, 120, 97, 109, 112, 108, 101, 46, 99, 111, 109>>
\* "api.example.com"
z_api == <<97, 112, 105, 46, 101, 120, 97, 109, 112, 108, 101, 46, 99, 111, 109>>
\* "svc.api.example.com"
h_svc_api == <<115, 118, 99, 46, 97, 112, 105, 46, 101, 120, 97, 109, 112, 108, 101, 46, 99, 111, 109>>
\* "svc.example.com"
h_svc == <<115, 118, 99, 46, 101, 120, 97, 109, 112, 108, 101, 46, 99, 111, 109>>
\* "Svc.Example.com."
h_svc_raw == <<83, 118, 99, 46, 69, 120, 97, 109, 112, 108, 101, 46, 99, 111, 109, 46>>
\* "old.example.com"
h_old == <<111, 108, 100, 46, 101, 120, 97, 109, 112, 108, 101, 46, 99, 111, 109>>
\* "t1", the tunnel identifier
id_tunnel == <<116, 49>>
\* ".cfargotunnel.com"
suffix_target == <<46, 99, 102, 97, 114, 103, 111, 116, 117, 110, 110, 101, 108, 46, 99, 111, 109>>
\* "T1.cfargotunnel.com"
c_target_upper == <<84, 49, 46, 99, 102, 97, 114, 103, 111, 116, 117, 110, 110, 101, 108, 46, 99, 111, 109>>
\* "origin.example.net"
c_other == <<111, 114, 105, 103, 105, 110, 46, 101, 120, 97, 109, 112, 108, 101, 46, 110, 101, 116>>
\* "."
Dot == <<46>>
\* "app"
n_app == <<97, 112, 112>>
\* "App"
n_App == <<65, 112, 112>>
\* "web"
n_web == <<119, 101, 98>>
\* "app.example.com"
d_app == <<97, 112, 112, 46, 101, 120, 97, 109, 112, 108, 101, 46, 99, 111, 109>>
\* "web.example.com"
d_web == <<119, 101, 98, 46, 101, 120, 97, 109, 112, 108, 101, 46, 99, 111, 109>>
\* "allow"
n_allow == <<97, 108, 108, 111, 119>>
\* "Allow"
n_Allow == <<65, 108, 108, 111, 119>>
\* "byid"
n_byid == <<98, 121, 105, 100>>
\* "scoped"
n_scoped == <<115, 99, 111, 112, 101, 100>>
\* "10.0.0.0/8"
ip_office == <<49, 48, 46, 48, 46, 48, 46, 48, 47, 56>>
\* "allow"
a_allow == <<97, 108, 108, 111, 119>>
\* "deny"
a_deny == <<100, 101, 110, 121>>
\* "u@example.com"
e_user == <<117, 64, 101, 120, 97, 109, 112, 108, 101, 46, 99, 111, 109>>
\* "U@example.com"
e_User == <<85, 64, 101, 120, 97, 109, 112, 108, 101, 46, 99, 111, 109>>
\* "team"
t_team == <<116, 101, 97, 109>>
\* "ops"
t_ops == <<111, 112, 115>>
\* "email:"
prefix_email == <<101, 109, 97, 105, 108, 58>>
\* "ip:"
prefix_ip == <<105, 112, 58>>

\* ======================================================================
\* Model types
\* ======================================================================

\* model.FallbackService, the service of the catch-all rule
FallbackService == "http_status:404"

\* model.RouteKey.String
RouteKeyString(key) ==
  IF key.Path = Empty THEN key.Hostname ELSE key.Hostname \o key.Path

\* model.RouteKey
RouteKey(hostname, path) == [Hostname |-> hostname, Path |-> path]

\* ------------------------------------------------- originRequest documents
\* The keys of an originRequest object: the two managed ones and one the
\* reconciler does not know.
OriginKeys == {"originServerName", "noTLSVerify", "connectTimeout"}

Absent == [t |-> "absent", v |-> ""]
JStr(s) == [t |-> "str", v |-> s]
JBool(b) == [t |-> "bool", v |-> IF b THEN "true" ELSE "false"]
\* a JSON number: a non-negative integer by its decimal digits
JNum(digits) == [t |-> "num", v |-> digits]

NoFields == [k \in OriginKeys |-> Absent]

\* json.RawMessage of length 0
NilRaw == [kind |-> "nil", fields |-> NoFields, canon |-> TRUE]
\* bytes json.Unmarshal rejects for a map: not JSON, or a JSON value that
\* is neither an object nor null
InvalidRaw == [kind |-> "invalid", fields |-> NoFields, canon |-> FALSE]
\* the JSON value null
NullRaw == [kind |-> "null", fields |-> NoFields, canon |-> TRUE]
\* no value: the merge panicked on a write into a nil map
PanicRaw == [kind |-> "panic", fields |-> NoFields, canon |-> FALSE]
\* a JSON object; canon tells whether the bytes are those json.Marshal
\* produces for the object (sorted keys, no white space)
ObjRaw(fields, canon) == [kind |-> "obj", fields |-> fields, canon |-> canon]

\* an optional value: *string, *bool
None == [set |-> FALSE, v |-> ""]
Some(v) == [set |-> TRUE, v |-> v]

\* model.RouteSpec
RouteSpec(hostname, path, service, osn, ntv) ==
  [Key |-> RouteKey(hostname, path), Service |-> service,
   OriginServerName |-> osn, NoTLSVerify |-> ntv]

\* cloudflare.IngressRule
IngressRule(hostname, path, service, origin) ==
  [Hostname |-> hostname, Path |-> path, Service |-> service,
   OriginRequest |-> origin]

\* ======================================================================
\* internal/reconcile: the ingress reconciler
\* ======================================================================

\* originRequestStringEqual
originRequestStringEqual(value, expected) ==
  value.t = "str" /\ value.v = expected

\* originRequestBoolEqual
originRequestBoolEqual(value, expected) ==
  value.t = "bool" /\ value.v = JBool(expected).v

\* 2^53: every integer up to it is a float64
TwoPow53 == <<9, 0, 0, 7, 1, 9, 9, 2, 5, 4, 7, 4, 0, 9, 9, 2>>

\* a <= b for integers given by their digits, without leading zeros
RECURSIVE DigitsLE(_, _)
DigitsLE(a, b) ==
  IF Len(a) # Len(b) THEN Len(a) < Len(b)
  ELSE IF a = <<>> THEN TRUE
  ELSE IF Head(a) # Head(b) THEN Head(a) < Head(b)
  ELSE DigitsLE(Tail(a), Tail(b))

\* the digits of the integer plus one
RECURSIVE DigitsPlusOne(_)
DigitsPlusOne(d) ==
  IF d = <<>> THEN <<1>>
  ELSE IF d[Len(d)] < 9 THEN [d EXCEPT ![Len(d)] = @ + 1]
  ELSE Append(DigitsPlusOne(SubSeq(d, 1, Len(d) - 1)), 0)

\* json.Unmarshal into map[string]any stores a number as float64 and
\* json.Marshal writes that float64: an integer up to 2^53 is written as
\* it was read; between 2^53 and 2^54 the float64 values are the even
\* integers, and an odd one is read as the neighbour that is a multiple of
\* four (round to nearest, ties to the even mantissa)
Float64Integer(d) ==
  IF DigitsLE(d, TwoPow53) \/ d[Len(d)] % 2 = 0 THEN d
  ELSE IF (10 * d[Len(d) - 1] + d[Len(d)]) % 4 = 1
  THEN [d EXCEPT ![Len(d)] = @ - 1]
  ELSE DigitsPlusOne(d)

\* a value of the map as json.Marshal writes it back
MarshalledValue(value) ==
  IF value.t = "num" THEN JNum(Float64Integer(value.v)) ELSE value

\* json.Marshal of the map
Marshalled(fields) == [k \in OriginKeys |-> MarshalledValue(fields[k])]

\* the object json.Unmarshal leaves in the map
UnmarshalledFields(existing) ==
  IF existing.kind = "obj" THEN existing.fields ELSE NoFields

\* one managed key of the merge: the field's new value
MergedField(current, wanted, jsonValue) ==
  IF wanted.set THEN jsonValue ELSE Absent

\* whether the merge touched the key
FieldChanged(current, wanted, same) ==
  IF wanted.set THEN (current = Absent \/ ~same) ELSE current # Absent

mergeManagedOriginRequest(existing, route) ==
  IF existing.kind = "nil" /\ ~route.OriginServerName.set /\ ~route.NoTLSVerify.set
  THEN NilRaw
  ELSE
    LET originRequest == UnmarshalledFields(existing)
        osnNow == originRequest["originServerName"]
        ntvNow == originRequest["noTLSVerify"]
        osnChanged ==
          FieldChanged(osnNow, route.OriginServerName,
            originRequestStringEqual(osnNow, route.OriginServerName.v))
        ntvChanged ==
          FieldChanged(ntvNow, route.NoTLSVerify,
            originRequestBoolEqual(ntvNow, route.NoTLSVerify.v = "true"))
        changed == osnChanged \/ ntvChanged
        merged ==
          [originRequest EXCEPT
             !["originServerName"] =
               MergedField(osnNow, route.OriginServerName,
                           JStr(route.OriginServerName.v)),
             !["noTLSVerify"] =
               MergedField(ntvNow, route.NoTLSVerify,
                           JBool(route.NoTLSVerify.v = "true"))]
    IN IF existing.kind = "null" /\ (route.OriginServerName.set \/ route.NoTLSVerify.set)
       THEN PanicRaw
       ELSE IF ~changed THEN existing
       ELSE IF \A k \in OriginKeys : merged[k] = Absent THEN NilRaw
       ELSE ObjRaw(Marshalled(merged), TRUE)

\* ingressRuleKey
ingressRuleKey(rule) == RouteKeyString(RouteKey(rule.Hostname, rule.Path))

\* sort.Slice(rules, less by ingressRuleKey): insertion into a sorted list
RECURSIVE InsertByKey(_, _)
InsertByKey(rule, sorted) ==
  IF sorted = <<>> THEN <<rule>>
  ELSE IF StrLess(ingressRuleKey(rule), ingressRuleKey(Head(sorted)))
    THEN <<rule>> \o sorted
    ELSE <<Head(sorted)>> \o InsertByKey(rule, Tail(sorted))

\* the rules left in the order of the desired routes
SortByKey_Unsorted(rules) == rules

RECURSIVE SortByKey(_)
SortByKey(rules) ==
  IF rules = <<>> THEN <<>>
  ELSE InsertByKey(rules[Len(rules)], SortByKey(SubSeq(rules, 1, Len(rules) - 1)))

\* the rules buildDesiredIngress indexes: those with a hostname
IndexedPositions(existing) ==
  {i \in 1..Len(existing) : existing[i].Hostname # Empty}

\* existingByKey: the first live rule of each (hostname, path) key
ExistingKeys(existing) ==
  {RouteKey(existing[i].Hostname, existing[i].Path) : i \in IndexedPositions(existing)}

FirstPosition(existing, key) ==
  CHOOSE i \in IndexedPositions(existing) :
    /\ RouteKey(existing[i].Hostname, existing[i].Path) = key
    /\ \A j \in IndexedPositions(existing) :
         RouteKey(existing[j].Hostname, existing[j].Path) = key => i <= j

\* an index that keeps the last live rule of each key
existingByKey_KeepsLast(existing) ==
  [key \in ExistingKeys(existing) |->
     existing[CHOOSE i \in IndexedPositions(existing) :
                /\ RouteKey(existing[i].Hostname, existing[i].Path) = key
                /\ \A j \in IndexedPositions(existing) :
                     RouteKey(existing[j].Hostname, existing[j].Path) = key => j <= i]]

existingByKey(existing) ==
  [key \in ExistingKeys(existing) |-> existing[FirstPosition(existing, key)]]

\* a sequence listing the elements of a set, in some order
RECURSIVE SetToSeq(_)
SetToSeq(S) ==
  IF S = {} THEN <<>>
  ELSE LET x == CHOOSE y \in S : TRUE IN <<x>> \o SetToSeq(S \ {x})

\* the rule emitted for one desired route
DesiredRule(route, existing) ==
  LET byKey == existingByKey(existing)
      existingOriginRequest ==
        IF route.Key \in DOMAIN byKey THEN byKey[route.Key].OriginRequest ELSE NilRaw
  IN IngressRule(route.Key.Hostname, route.Key.Path, route.Service,
                 mergeManagedOriginRequest(existingOriginRequest, route))

CatchAll == IngressRule(Empty, Empty, FallbackService, NilRaw)

\* the rule list with the live catch-all rules carried over instead of one
\* catch-all appended
buildDesiredIngress_KeepLiveCatchAll(desired, existing) ==
  SortByKey([i \in 1..Len(desired) |-> DesiredRule(desired[i], existing)])
    \o SelectSeq(existing, LAMBDA r : r.Hostname = Empty)

\* buildDesiredIngress: first result, the rule list to write
buildDesiredIngress(desired, existing) ==
  SortByKey([i \in 1..Len(desired) |-> DesiredRule(desired[i], existing)])
    \o <<CatchAll>>

\* buildDesiredIngress: second result, the live rules that are dropped
removedRules(desired, existing) ==
  LET byKey == existingByKey(existing)
      desiredKeys == {desired[i].Key : i \in 1..Len(desired)}
  IN SortByKey(SetToSeq({byKey[k] : k \in (DOMAIN byKey) \ desiredKeys}))

\* a comparison that takes two rules with origin options for different
ingressEqual_OriginNeverEqual(left, right) ==
  /\ Len(left) = Len(right)
  /\ \A i \in 1..Len(left) :
       /\ left[i].Hostname = right[i].Hostname
       /\ left[i].Path = right[i].Path
       /\ left[i].Service = right[i].Service
       /\ left[i].OriginRequest = right[i].OriginRequest
       /\ left[i].OriginRequest.kind = "nil"

\* ingressEqual
ingressEqual(left, right) ==
  /\ Len(left) = Len(right)
  /\ \A i \in 1..Len(left) :
       /\ left[i].Hostname = right[i].Hostname
       /\ left[i].Path = right[i].Path
       /\ left[i].Service = right[i].Service
       /\ left[i].OriginRequest = right[i].OriginRequest


\* the gates without the dry-run check
IngressDecision_NoDryRunGate(matches, manage, dry) ==
  IF matches THEN "up-to-date"
  ELSE IF ~manage THEN "skip-unmanaged"
  ELSE "write"

\* the gates of Engine.Reconcile between the comparison and the write
IngressDecision(matches, manage, dry) ==
  IF matches THEN "up-to-date"
  ELSE IF ~manage THEN "skip-unmanaged"
  ELSE IF dry THEN "skip-dry-run"
  ELSE "write"

\* ======================================================================
\* internal/dns: the DNS reconciler
\* ======================================================================
dnsRecordType == "CNAME"

\* model.DNSManagedComment of the default managed-by value
managedComment == "managed-by=docker-cf-tunnel-sync"

\* Engine.tunnelTarget
tunnelTarget == id_tunnel \o suffix_target

\* cloudflare.Zone
Zone(id, name) == [ID |-> id, Name |-> name]

\* cloudflare.DNSRecord, with the zone that holds it
DNSRecord(id, zone, type, name, content, proxied, comment) ==
  [ID |-> id, Zone |-> zone, Type |-> type, Name |-> name, Content |-> content,
   Proxied |-> proxied, Comment |-> comment]

NoRecord == DNSRecord(0, "", "", Empty, Empty, FALSE, "")

\* strings.ToLower(strings.TrimSuffix(name, "."))
NormalizeName(name) == ToLower(TrimSuffix(name, Dot))

\* sort.Strings of a set of strings
RECURSIVE SortStrings(_)
SortStrings(S) ==
  IF S = {} THEN <<>>
  ELSE LET least == CHOOSE x \in S : \A y \in S : ~StrLess(y, x)
       IN <<least>> \o SortStrings(S \ {least})

\* uniqueHostnames
uniqueHostnames(rs) ==
  SortStrings({NormalizeName(TrimSpace(rs[i].Key.Hostname)) :
                 i \in {j \in 1..Len(rs) : TrimSpace(rs[j].Key.Hostname) # Empty}})

\* sort.SliceStable by descending name length: a zone goes in front of the
\* first zone with a shorter name
RECURSIVE InsertZone(_, _)
InsertZone(zone, sorted) ==
  IF sorted = <<>> THEN <<zone>>
  ELSE IF Len(Head(sorted).Name) < Len(zone.Name)
    THEN <<zone>> \o sorted
    ELSE <<Head(sorted)>> \o InsertZone(zone, Tail(sorted))

RECURSIVE orderZones(_)
orderZones(zones) ==
  IF zones = <<>> THEN <<>>
  ELSE InsertZone(zones[Len(zones)], orderZones(SubSeq(zones, 1, Len(zones) - 1)))

\* the suffix test of matchZone and filterHostnamesForZone
HostInZone(hostname, zoneName) ==
  LET lower == NormalizeName(hostname)
      lowerZone == NormalizeName(zoneName)
  IN lower = lowerZone \/ HasSuffix(lower, Dot \o lowerZone)

\* matchZone: the first zone of the list that the hostname falls in
matchZone(hostname, zones) ==
  LET hits == {i \in 1..Len(zones) : HostInZone(hostname, zones[i].Name)}
  IN IF hits = {} THEN [found |-> FALSE, zone |-> Zone("", Empty)]
     ELSE [found |-> TRUE,
           zone |-> zones[CHOOSE i \in hits : \A j \in hits : i <= j]]

\* filterHostnamesForZone
filterHostnamesForZone(hostnames, zoneName) ==
  LET kept == SelectSeq(hostnames, LAMBDA h : HostInZone(h, zoneName))
  IN [i \in 1..Len(kept) |-> NormalizeName(kept[i])]

\* cloudflare.DNSRecordInput built in Engine.Reconcile
DesiredRecord(hostname) ==
  [Type |-> dnsRecordType, Name |-> hostname, Content |-> tunnelTarget,
   Proxied |-> TRUE, Comment |-> managedComment]

\* an ownership test that looks at the comment alone
isManagedRecord_CommentOnly(record, desired) ==
  record.Comment = managedComment

\* Engine.isManagedRecord
isManagedRecord(record, desired) ==
  IF record.Comment = managedComment THEN TRUE
  ELSE EqualFold(record.Content, desired.Content)

\* a comparison with the proxied test inverted
dnsRecordEqual_InvertedProxied(record, desired) ==
  /\ EqualFold(record.Content, desired.Content)
  /\ record.Proxied # desired.Proxied
  /\ record.Comment = desired.Comment

\* dnsRecordEqual
dnsRecordEqual(record, desired) ==
  /\ EqualFold(record.Content, desired.Content)
  /\ record.Proxied = desired.Proxied
  /\ record.Comment = desired.Comment

\* the deletion decision without the ownership-marker check
DeleteDecision_NoMarkerCheck(record, known, delete, dry) ==
  LET hostname == NormalizeName(record.Name)
  IN IF \E i \in 1..Len(known) : known[i] = hostname THEN "desired"
     ELSE IF ~delete THEN "keep"
     ELSE IF dry THEN "skip-dry-run"
     ELSE "delete"

\* the decision of the deletion pass for one listed record
DeleteDecision(record, known, delete, dry) ==
  LET hostname == NormalizeName(record.Name)
  IN IF \E i \in 1..Len(known) : known[i] = hostname THEN "desired"
     ELSE IF ~delete THEN "keep"
     ELSE IF record.Comment # managedComment THEN "foreign"
     ELSE IF dry THEN "skip-dry-run"
     ELSE "delete"

\* the upsert decision without the ownership check and the ambiguity check
UpsertDecision_NoOwnershipCheck(records, desired, dry) ==
  IF Len(records) = 0 THEN (IF dry THEN "skip-dry-run" ELSE "create")
  ELSE IF records[1].Type # dnsRecordType THEN "not-cname"
  ELSE IF dnsRecordEqual(records[1], desired) THEN "up-to-date"
  ELSE IF dry THEN "skip-dry-run"
  ELSE "update"

\* the upsert decision without the dry-run gates
UpsertDecision_NoDryRunGate(records, desired, dry) ==
  IF Len(records) > 1 THEN "ambiguous"
  ELSE IF Len(records) = 0 THEN "create"
  ELSE IF records[1].Type # dnsRecordType THEN "not-cname"
  ELSE IF ~isManagedRecord(records[1], desired) THEN "foreign"
  ELSE IF dnsRecordEqual(records[1], desired) THEN "up-to-date"
  ELSE "update"

\* the decision of the upsert pass for one hostname, from the records the
\* lookup returned
UpsertDecision(records, desired, dry) ==
  IF Len(records) > 1 THEN "ambiguous"
  ELSE IF Len(records) = 0 THEN (IF dry THEN "skip-dry-run" ELSE "create")
  ELSE IF records[1].Type # dnsRecordType THEN "not-cname"
  ELSE IF ~isManagedRecord(records[1], desired) THEN "foreign"
  ELSE IF dnsRecordEqual(records[1], desired) THEN "up-to-date"
  ELSE IF dry THEN "skip-dry-run"
  ELSE "update"

\* a set of records as the list the remote returns, by ascending identifier
RECURSIVE RecordsByID(_)
RecordsByID(S) ==
  IF S = {} THEN <<>>
  ELSE LET first == CHOOSE r \in S : \A q \in S : r.ID <= q.ID
       IN <<first>> \o RecordsByID(S \ {first})

\* Client.ListDNSRecords against the records the remote holds: the type
\* filter, and the name filter when a name is given
ListedRecords(remote, zoneID, recordType, name) ==
  RecordsByID({r \in remote :
    /\ r.Zone = zoneID
    /\ r.Type = recordType
    /\ (name = Empty \/ NormalizeName(r.Name) = NormalizeName(name))})

\* ======================================================================
\* internal/access: the Access reconciler
\* ======================================================================
\* model.AccessManagedTag of the default managed-by value:
\* "managed-by=docker-cf-tunnel-sync"
managedTag == <<109, 97, 110, 97, 103, 101, 100, 45, 98, 121, 61, 100, 111, 99, 107, 101, 114, 45, 99, 102, 45, 116, 117, 110, 110, 101, 108, 45, 115, 121, 110, 99>>

\* identifiers are numbers; 0 is the empty identifier ""
NoID == 0

\* model.AccessPolicySpec
AccessPolicySpec(id, name, action, emails, ips, managed) ==
  [ID |-> id, Name |-> name, Action |-> action, IncludeEmails |-> emails,
   IncludeIPs |-> ips, Managed |-> managed]

\* model.AccessAppSpec
AccessAppSpec(id, name, domain, policies, tags, tagsSet) ==
  [ID |-> id, Name |-> name, Domain |-> domain, Policies |-> policies,
   Tags |-> tags, TagsSet |-> tagsSet]

\* cloudflare.AccessRule
AccessRule(email, ip) == [Email |-> email, IP |-> ip]

\* cloudflare.AccessPolicyRecord
AccessPolicyRecord(id, name, action, include, unsupported) ==
  [ID |-> id, Name |-> name, Action |-> action, Include |-> include,
   HasUnsupportedRules |-> unsupported]

\* cloudflare.AccessPolicyRef
AccessPolicyRef(id, precedence) == [ID |-> id, Precedence |-> precedence]

\* cloudflare.AccessAppRecord
AccessAppRecord(id, name, domain, type, policies, tags) ==
  [ID |-> id, Name |-> name, Domain |-> domain, Type |-> type,
   Policies |-> policies, Tags |-> tags]

NoApp == AccessAppRecord(NoID, Empty, Empty, "", <<>>, <<>>)
NoPolicy == AccessPolicyRecord(NoID, Empty, Empty, <<>>, FALSE)

\* accessAppKey of a name and a domain
accessAppKey(name, domain) == [Name |-> ToLower(name), Domain |-> ToLower(domain)]

\* appByKey[key]: the listed apps with the key, in list order
appByKey(existing, key) ==
  SelectSeq(existing, LAMBDA a : accessAppKey(a.Name, a.Domain) = key)

\* a map keyed by identifier, kept as the list of the records stored in it:
\* the entry of an identifier is the record stored last
HasID(known, id) == \E i \in 1..Len(known) : known[i].ID = id

ByID(known, id) ==
  known[CHOOSE i \in 1..Len(known) :
          /\ known[i].ID = id
          /\ \A j \in 1..Len(known) : known[j].ID = id => j <= i]

\* policyByName[strings.ToLower(name)]
policyByName(known, name) ==
  SelectSeq(known, LAMBDA q : q.Name # Empty /\ ToLower(q.Name) = ToLower(name))

\* a resolution by name that takes the first of several matches
resolvePolicyByName_FirstMatch(spec, known) ==
  LET matches == policyByName(known, spec.Name)
  IN IF Len(matches) = 0 THEN [record |-> NoPolicy, found |-> FALSE, ok |-> TRUE]
     ELSE [record |-> matches[1], found |-> TRUE, ok |-> TRUE]

\* Engine.resolvePolicyByName
resolvePolicyByName(spec, known) ==
  LET matches == policyByName(known, spec.Name)
  IN IF Len(matches) = 0 THEN [record |-> NoPolicy, found |-> FALSE, ok |-> TRUE]
     ELSE IF Len(matches) > 1 THEN [record |-> NoPolicy, found |-> FALSE, ok |-> FALSE]
     ELSE [record |-> matches[1], found |-> TRUE, ok |-> TRUE]

\* sort.Strings of a list of strings
RECURSIVE InsertString(_, _)
InsertString(x, sorted) ==
  IF sorted = <<>> THEN <<x>>
  ELSE IF StrLess(x, Head(sorted)) THEN <<x>> \o sorted
  ELSE <<Head(sorted)>> \o InsertString(x, Tail(sorted))

RECURSIVE SortStringSeq(_)
SortStringSeq(xs) ==
  IF xs = <<>> THEN <<>>
  ELSE InsertString(xs[Len(xs)], SortStringSeq(SubSeq(xs, 1, Len(xs) - 1)))

\* normalizeRules
normalizeRules(emails, ips) ==
  SortStringSeq(
    [i \in 1..Len(emails) |-> prefix_email \o ToLower(TrimSpace(emails[i]))]
    \o [i \in 1..Len(ips) |-> prefix_ip \o ToLower(TrimSpace(ips[i]))])

\* normalizeRuleList
RECURSIVE RuleStrings(_)
RuleStrings(rules) ==
  IF rules = <<>> THEN <<>>
  ELSE (IF Head(rules).Email # Empty
          THEN <<prefix_email \o ToLower(Head(rules).Email)>> ELSE <<>>)
       \o (IF Head(rules).IP # Empty
          THEN <<prefix_ip \o ToLower(Head(rules).IP)>> ELSE <<>>)
       \o RuleStrings(Tail(rules))

normalizeRuleList(rules) == SortStringSeq(RuleStrings(rules))

\* policyNeedsUpdate
policyNeedsUpdate(spec, record) ==
  \/ ToLower(record.Action) # ToLower(spec.Action)
  \/ normalizeRules(spec.IncludeEmails, spec.IncludeIPs) # normalizeRuleList(record.Include)

\* Engine.buildPolicyInput
buildPolicyInput(spec) ==
  [Name |-> spec.Name, Action |-> spec.Action,
   Include |-> [i \in 1..Len(spec.IncludeEmails) |-> AccessRule(spec.IncludeEmails[i], Empty)]
               \o [i \in 1..Len(spec.IncludeIPs) |-> AccessRule(Empty, spec.IncludeIPs[i])]]

\* mergeTags
RECURSIVE DedupTags(_, _)
DedupTags(tags, seen) ==
  IF tags = <<>> THEN <<>>
  ELSE IF Head(tags) = Empty \/ Head(tags) \in seen THEN DedupTags(Tail(tags), seen)
  ELSE <<Head(tags)>> \o DedupTags(Tail(tags), seen \cup {Head(tags)})

mergeTags(existing, required) ==
  LET tags == DedupTags(existing, {})
  IN IF required # Empty /\ ~(\E i \in 1..Len(tags) : tags[i] = required)
     THEN Append(tags, required)
     ELSE tags

\* a check that takes every app for owned
hasManagedTag_Always(tags, tag) == TRUE

\* hasManagedTag
hasManagedTag(tags, tag) == \E i \in 1..Len(tags) : tags[i] = tag

\* an input whose tags always get the marker tag
buildAppInput_AlwaysMarker(spec, policyRefs, existingTags, tagging) ==
  LET chosen == IF spec.TagsSet THEN spec.Tags ELSE existingTags
  IN [Name |-> spec.Name, Domain |-> spec.Domain, Type |-> "self_hosted",
      Policies |-> policyRefs, Tags |-> mergeTags(chosen, managedTag)]

\* Engine.buildAppInput
buildAppInput(spec, policyRefs, existingTags, tagging) ==
  LET chosen == IF spec.TagsSet THEN spec.Tags ELSE existingTags
  IN [Name |-> spec.Name, Domain |-> spec.Domain, Type |-> "self_hosted",
      Policies |-> policyRefs,
      Tags |-> IF tagging THEN mergeTags(chosen, managedTag) ELSE chosen]

\* normalizePolicyRefs: the identifiers by ascending order number, a zero
\* precedence counting as the position in the list
RefOrder(refs, i) == IF refs[i].Precedence = 0 THEN i ELSE refs[i].Precedence

RECURSIVE RefsByOrder(_, _)
RefsByOrder(refs, left) ==
  IF left = {} THEN <<>>
  ELSE LET first == CHOOSE i \in left :
             \A j \in left :
               \/ RefOrder(refs, i) < RefOrder(refs, j)
               \/ (RefOrder(refs, i) = RefOrder(refs, j) /\ i <= j)
       IN <<refs[first].ID>> \o RefsByOrder(refs, left \ {first})

normalizePolicyRefs(refs) ==
  RefsByOrder(refs, {i \in 1..Len(refs) : refs[i].ID # NoID})

\* policyRefsEqual
policyRefsEqual(left, right) ==
  /\ Len(left) = Len(right)
  /\ LET leftKeys == normalizePolicyRefs(left)
         rightKeys == normalizePolicyRefs(right)
     IN \A i \in 1..Len(leftKeys) : leftKeys[i] = rightKeys[i]

\* stringSetsEqual
stringSetsEqual(left, right) ==
  /\ Len(left) = Len(right)
  /\ SortStringSeq(left) = SortStringSeq(right)

\* Engine.appNeedsUpdate
appNeedsUpdate(record, desired) ==
  \/ record.Name # desired.Name
  \/ record.Domain # desired.Domain
  \/ (record.Type # "" /\ record.Type # desired.Type)
  \/ ~policyRefsEqual(record.Policies, desired.Policies)
  \/ ~stringSetsEqual(record.Tags, desired.Tags)

\* Engine.resolveAccessApp
resolveAccessApp(spec, knownApps, existing) ==
  IF spec.ID # NoID
  THEN IF HasID(knownApps, spec.ID)
       THEN [record |-> ByID(knownApps, spec.ID), found |-> TRUE]
       ELSE [record |-> NoApp, found |-> FALSE]
  ELSE LET matches == appByKey(existing, accessAppKey(spec.Name, spec.Domain))
       IN IF Len(matches) = 1 THEN [record |-> matches[1], found |-> TRUE]
          ELSE [record |-> NoApp, found |-> FALSE]

\* one remote call of the Access reconciler, as the remote sees it; idx is
\* the position of the desired app being processed (0 outside the app loop)
AccCall(op, idx, id, name, policies, tags, ok) ==
  [op |-> op, idx |-> idx, id |-> id, name |-> name, policies |-> policies,
   tags |-> tags, ok |-> ok]

\* the identifier the remote gives a created record; base is the largest
\* identifier of the records that may exist at the start
NewID(records, base) ==
  base + 1 + Cardinality({i \in 1..Len(records) : records[i].ID > base})

\* the record list with the record of the given identifier replaced
ReplaceByID(records, id, record) ==
  [i \in 1..Len(records) |-> IF records[i].ID = id THEN record ELSE records[i]]

\* the record the remote stores for, and answers to, a written policy
WrittenPolicy(id, input) ==
  AccessPolicyRecord(id, input.Name, input.Action, input.Include, FALSE)

\* an update check that does not tell reference-only policies apart
updatePolicyIfNeeded_UpdatesReferences(st, idx, spec, record, manage, dry, failed) ==
  IF ~policyNeedsUpdate(spec, record) THEN st
  ELSE IF ~manage THEN st
  ELSE IF dry THEN st
  ELSE [st EXCEPT
          !.calls = Append(@, AccCall("UpdateAccessPolicy", idx, record.ID,
                                      spec.Name, <<>>, <<>>, ~failed)),
          !.remote = IF failed THEN @
                     ELSE ReplaceByID(@, record.ID,
                                      WrittenPolicy(record.ID, buildPolicyInput(spec)))]

\* Engine.updatePolicyIfNeeded; st carries policyRefs, the policy maps, the
\* remote policies and the calls issued; failed tells whether the call fails
updatePolicyIfNeeded(st, idx, spec, record, manage, dry, failed) ==
  IF ~spec.Managed THEN st
  ELSE IF ~policyNeedsUpdate(spec, record) THEN st
  ELSE IF ~manage THEN st
  ELSE IF dry THEN st
  ELSE [st EXCEPT
          !.calls = Append(@, AccCall("UpdateAccessPolicy", idx, record.ID,
                                      spec.Name, <<>>, <<>>, ~failed)),
          !.remote = IF failed THEN @
                     ELSE ReplaceByID(@, record.ID,
                                      WrittenPolicy(record.ID, buildPolicyInput(spec)))]

\* a policy reference appended to policyRefs without a precedence
WithRef_ZeroPrecedence(st, id) ==
  [st EXCEPT !.refs = Append(@, AccessPolicyRef(id, 0))]

\* a policy reference put in front of policyRefs
WithRef_Prepends(st, id) ==
  [st EXCEPT !.refs = <<AccessPolicyRef(id, Len(st.refs) + 1)>> \o @]

\* a policy reference appended to policyRefs with the next precedence
WithRef(st, id) ==
  [st EXCEPT !.refs = Append(@, AccessPolicyRef(id, Len(st.refs) + 1))]

\* Engine.ensurePolicies: CreateAccessPolicy for a managed policy whose name
\* is not known; created is the record the remote answers with
CreatePolicyStep(st, idx, created, failed) ==
  IF failed
  THEN [st EXCEPT
          !.calls = Append(@, AccCall("CreateAccessPolicy", idx, NoID, created.Name,
                                      <<>>, <<>>, FALSE)),
          !.aborted = TRUE]
  ELSE [WithRef(st, created.ID) EXCEPT
          !.calls = Append(@, AccCall("CreateAccessPolicy", idx, created.ID, created.Name,
                                      <<>>, <<>>, TRUE)),
          !.known = Append(@, created),
          !.remote = Append(@, created)]

\* Engine.ensurePolicies: a policy without identifier, r being the result of
\* resolvePolicyByName
NamedPolicyStep(st, idx, policy, r, manage, dry, failed, base) ==
  IF ~r.ok THEN [st EXCEPT !.aborted = TRUE]
  ELSE IF ~policy.Managed
  THEN IF ~r.found THEN [st EXCEPT !.aborted = TRUE]
       ELSE updatePolicyIfNeeded(WithRef(st, r.record.ID), idx, policy, r.record,
                                 manage, dry, failed)
  ELSE IF ~r.found
  THEN IF ~manage THEN st
       ELSE IF dry THEN st
       ELSE CreatePolicyStep(st, idx,
              WrittenPolicy(NewID(st.remote, base), buildPolicyInput(policy)), failed)
  ELSE updatePolicyIfNeeded(WithRef(st, r.record.ID), idx, policy, r.record,
                            manage, dry, failed)

\* Engine.ensurePolicies: the body of the loop for the policy at position k
PolicyStep(st, idx, policy, manage, dry, failed, base) ==
  IF policy.ID # NoID
  THEN IF ~HasID(st.known, policy.ID)
       THEN IF ~policy.Managed THEN WithRef(st, policy.ID)
            ELSE [st EXCEPT !.aborted = TRUE]
       ELSE updatePolicyIfNeeded(WithRef(st, ByID(st.known, policy.ID).ID), idx, policy,
                                 ByID(st.known, policy.ID), manage, dry, failed)
  ELSE NamedPolicyStep(st, idx, policy, resolvePolicyByName(policy, st.known),
                       manage, dry, failed, base)

\* Engine.ensurePolicies: the loop from position k on
RECURSIVE PolicyLoop(_, _, _, _, _, _, _, _)
PolicyLoop(st, idx, policies, k, manage, dry, fails, base) ==
  IF st.aborted \/ k > Len(policies) THEN st
  ELSE PolicyLoop(PolicyStep(st, idx, policies[k], manage, dry, k \in fails, base),
                  idx, policies, k + 1, manage, dry, fails, base)

\* the results of Engine.ensurePolicies: ok is the second result
PoliciesResult(st) ==
  [refs |-> st.refs, known |-> st.known, remote |-> st.remote, calls |-> st.calls,
   ok |-> ~st.aborted /\ Len(st.refs) > 0]

\* Engine.ensurePolicies
ensurePolicies(idx, app, known, remote, calls, manage, dry, fails, base) ==
  PoliciesResult(PolicyLoop([refs |-> <<>>, known |-> known, remote |-> remote,
                             calls |-> calls, aborted |-> FALSE],
                            idx, app.Policies, 1, manage, dry, fails, base))

\* Client.EnsureAccessTag for a non-blank name: the call with its result
\* and, when accessTagExists finds no such tag, the POST that creates it.
\* A failed call failed in accessTagExists, or in the POST when failPost
\* is set and the tag is missing
EnsureAccessTag(idx, name, remoteTags, failed, failPost) ==
  <<AccCall("EnsureAccessTag", idx, NoID, name, <<>>, <<>>, ~failed)>> \o
  (IF name \notin remoteTags /\ (~failed \/ failPost)
   THEN <<AccCall("CreateAccessTag", idx, NoID, name, <<>>, <<>>, ~failed)>>
   ELSE <<>>)

\* Engine.ensureAppTags: the loop from position k on; fails holds the
\* positions whose EnsureAccessTag call fails
RECURSIVE TagLoop(_, _, _, _, _, _)
TagLoop(st, idx, tags, k, fails, failPost) ==
  IF k > Len(tags) THEN st
  ELSE LET trimmed == TrimSpace(tags[k]) IN
       IF trimmed = Empty \/ trimmed \in st.seen
       THEN TagLoop(st, idx, tags, k + 1, fails, failPost)
       ELSE TagLoop(
              [st EXCEPT
                 !.seen = @ \cup {trimmed},
                 !.calls = @ \o EnsureAccessTag(idx, trimmed, st.remote, k \in fails,
                                                failPost),
                 !.ok = @ /\ k \notin fails,
                 !.ensured = IF k \in fails THEN @ ELSE Append(@, trimmed),
                 !.remote = IF k \in fails THEN @ ELSE @ \cup {trimmed}],
              idx, tags, k + 1, fails, failPost)

ensureAppTags(idx, app, remoteTags, calls, fails, failPost) ==
  TagLoop([seen |-> {}, ensured |-> <<>>, ok |-> TRUE, calls |-> calls,
           remote |-> remoteTags], idx, app.Tags, 1, fails, failPost)

\* an orphan cleanup that does not look at desiredAppIDs
OrphanDecision_IgnoresDesired(app, desired, manage, dry) ==
  IF ~manage THEN "unmanaged"
  ELSE IF ~hasManagedTag(app.Tags, managedTag) THEN "foreign"
  ELSE IF dry THEN "skip-dry-run"
  ELSE "delete"

\* the decision of deleteOrphanedApps for one listed app
OrphanDecision(app, desired, manage, dry) ==
  IF ~manage THEN "unmanaged"
  ELSE IF app.ID \in desired THEN "wanted"
  ELSE IF ~hasManagedTag(app.Tags, managedTag) THEN "foreign"
  ELSE IF dry THEN "skip-dry-run"
  ELSE "delete"

\* ------------------------------------------- tunnel configuration documents
\* The top-level keys of the configuration document besides "ingress".
OtherConfigKeys == {"warp-routing", "originRequest"}

\* a key the document does not hold
AbsentValue == [present |-> FALSE, json |-> "", compact |-> TRUE]
\* json.RawMessage of a top-level key: the JSON value it encodes, and whether
\* its bytes are free of insignificant white space
RawValue(json, compact) == [present |-> TRUE, json |-> json, compact |-> compact]

\* the configuration document: map[string]json.RawMessage, the "ingress"
\* key held apart from the others
ConfigDocument(hasIngress, rules, other) ==
  [ingress |-> [present |-> hasIngress, rules |-> rules], other |-> other]

EmptyDocument == ConfigDocument(FALSE, <<>>, [k \in OtherConfigKeys |-> AbsentValue])

\* cloudflare.TunnelConfig
TunnelConfig(ingress, raw) == [Ingress |-> ingress, Raw |-> raw]

\* Client.GetConfig, after the request: the ingress rules decoded from the
\* "ingress" key when the document has it, and the document itself as Raw
GetConfig(document) ==
  TunnelConfig(IF document.ingress.present THEN document.ingress.rules ELSE <<>>,
               document)

\* encoding/json on a json.RawMessage inside a map: the bytes compacted
marshalRaw(raw) ==
  IF raw.present THEN RawValue(raw.json, TRUE) ELSE raw

\* Client.UpdateConfig with the "ingress" key left as it was read
configPayload_KeepsReadIngress(config) ==
  [ingress |-> config.Raw.ingress,
   other |-> [k \in OtherConfigKeys |-> marshalRaw(config.Raw.other[k])]]

\* Client.UpdateConfig with a payload of the "ingress" key alone
configPayload_IngressOnly(config) ==
  [ingress |-> [present |-> TRUE, rules |-> config.Ingress],
   other |-> [k \in OtherConfigKeys |-> AbsentValue]]

\* Client.UpdateConfig, up to the request: config.Raw with the "ingress" key
\* set to the encoding of config.Ingress, encoded as the body
configPayload(config) ==
  [ingress |-> [present |-> TRUE, rules |-> config.Ingress],
   other |-> [k \in OtherConfigKeys |-> marshalRaw(config.Raw.other[k])]]

\* ======================================================================
\* State
\* ======================================================================
VARIABLES
  routes,         \* desired routes handed to the reconcilers
  dryRun,         \* SYNC_DRY_RUN
  manageTunnel,   \* SYNC_MANAGED_TUNNEL
  tunnelIngress,  \* remote: the ingress list of the tunnel configuration
  ingPC,          \* position of reconcile.Engine.Reconcile
  ingPass,        \* number of the current ingress pass
  ingConfig,      \* config.Ingress as read by the current pass
  ingWrite,       \* desiredIngress of the current pass
  ingRemoved,     \* removedRules of the current pass
  ingCalls,       \* remote calls issued by the ingress reconciler
  ingErr,         \* whether the last finished pass returned an error
  manageDNS,      \* SYNC_MANAGED_DNS
  deleteDNS,      \* SYNC_DELETE_DNS
  dnsZones,       \* remote: the zones of the account, as ListZones returns them
  dnsRecords,     \* remote: the DNS records of all zones
  dnsPC,          \* position of dns.Engine.Reconcile
  dnsHostnames,   \* hostnames: uniqueHostnames(routes)
  dnsOrdered,     \* orderedZones
  dnsZi,          \* index of the zone being processed
  dnsScan,        \* records listed for the deletion pass of the zone
  dnsIdx,         \* index in the record loop or in the hostname loop
  dnsCalls,       \* remote calls issued by the DNS reconciler
  dnsErr,         \* whether Reconcile returned an error
  dnsPass,        \* number of the current DNS pass
  dnsPrev,        \* how the previous DNS pass went: "none", "clean", "failed"
  manageAccess,   \* SYNC_MANAGED_ACCESS
  accApps,        \* desired access apps handed to access.Engine.Reconcile
  accLiveApps,    \* remote: the Access applications of the account
  accLivePolicies,\* remote: the Access policies of the account
  accLiveTags,    \* remote: the Access tags of the account
  accPC,          \* position of access.Engine.Reconcile
  accIdx,         \* index in the app loop or in the orphan loop
  accExisting,    \* existingApps as listed at the start of the pass
  accKnownApps,   \* appByID: the records stored in it, in order of storing
  accKnownPolicies, \* policyByID and policyByName, in order of storing
  accDesiredIDs,  \* desiredAppIDs
  accOutcome,     \* how the loop iteration of each desired app ended
  accCalls,       \* remote calls issued by the Access reconciler
  accErr,         \* whether Reconcile returned an error
  accPass,        \* number of the current Access pass
  accPrev,        \* how the previous Access pass went: "none", "clean", "failed"
  accCancelAt,    \* 0, or the number of the first call made with ctx cancelled
  ctlRunOnce,     \* the runOnce argument of Controller.Run
  ctlHasDNS,      \* controller.dnsEngine != nil
  ctlHasAccess,   \* controller.accessEngine != nil
  ctlPC,          \* position of Controller.Run and Controller.syncOnce
  ctlTick,        \* number of the current sync pass
  ctlInvoked,     \* the reconcilers invoked by the current pass, with their results
  ctlResult,      \* what syncOnce returned: "none", "nil", "error"
  ctlLog,         \* error lines logged by the controller in the current pass
  ctlPrev,        \* what the previous pass returned: "none", "nil", "error"
  ctlReturned,    \* number of syncOnce calls that have returned
  ctlTickPending, \* a tick waits in ticker.C, a channel of capacity one
  ctlCancelled,   \* ctx is done
  mrgPC,          \* position of the merge sequence: "input", "merged", "cleared"
  mrgExisting,    \* existing, the originRequest of the live rule
  mrgRoute,       \* the desired route
  mrgFirst,       \* mergeManagedOriginRequest(existing, route)
  mrgSecond,      \* the merge of mrgFirst with a route that specifies no field
  prsContainers,  \* the containers argument of Parser.ParseContainers
  prsPC,          \* position of ParseContainers: "start", "loop", "done"
  prsSorted,      \* sorted, the copy of containers ordered by ID
  prsIdx,         \* position of the container loop in sorted
  prsDesired,     \* desired, the routes accepted so far
  prsKeys,        \* desiredKeys, the keys of the routes accepted so far
  prsErrors,      \* errors, the validation errors so far
  prsCalls,       \* the routes handed to appendRouteSpec so far, in order
  cfgRemote,      \* remote: the whole tunnel configuration document
  cfgPC,          \* position of Engine.Reconcile over the whole document
  cfgConfig,      \* config as Client.GetConfig returned it to the pass
  cfgRaced,       \* another writer has replaced the document since the read
  cfgCalls        \* requests the remote received for the document, in order

ingVars == <<tunnelIngress, ingPC, ingPass, ingConfig, ingWrite, ingRemoved,
             ingCalls, ingErr, manageTunnel>>
dnsVars == <<manageDNS, deleteDNS, dnsZones, dnsRecords, dnsPC, dnsHostnames,
             dnsOrdered, dnsZi, dnsScan, dnsIdx, dnsCalls, dnsErr, dnsPass, dnsPrev>>
accVars == <<manageAccess, accApps, accLiveApps, accLivePolicies, accLiveTags,
             accPC, accIdx, accExisting, accKnownApps, accKnownPolicies,
             accDesiredIDs, accOutcome, accCalls, accErr, accPass, accPrev,
             accCancelAt>>
ctlVars == <<ctlRunOnce, ctlHasDNS, ctlHasAccess, ctlPC, ctlTick, ctlInvoked,
             ctlResult, ctlLog, ctlPrev, ctlReturned, ctlTickPending, ctlCancelled>>

mrgVars == <<mrgPC, mrgExisting, mrgRoute, mrgFirst, mrgSecond>>

prsVars == <<prsContainers, prsPC, prsSorted, prsIdx, prsDesired, prsKeys, prsErrors,
             prsCalls>>

cfgVars == <<cfgRemote, cfgPC, cfgConfig, cfgRaced, cfgCalls>>

vars == <<routes, dryRun, ingVars, dnsVars, accVars, ctlVars, mrgVars, prsVars,
          cfgVars>>

\* sequences over S of length at most n
SeqsUpTo(S, n) == UNION {[1..k -> S] : k \in 0..n}

\* ------------------------------------------------------ ingress inputs
RouteUniverse ==
  { RouteSpec(h_a, Empty, "http://a:80", None, None),
    RouteSpec(h_a, Empty, "http://a:80", Some("origin.internal"), None),
    RouteSpec(h_a, p_x, "http://ax", None, None),
    RouteSpec(h_au, Empty, "http://au", None, None),
    RouteSpec(h_b, Empty, "http://b", None, Some("true")) }

LiveRuleUniverse ==
  { IngressRule(h_b, Empty, "http://b", NilRaw),
    IngressRule(h_a, Empty, "http://a:80", NilRaw),
    IngressRule(h_a, Empty, "http://old",
      ObjRaw([NoFields EXCEPT !["noTLSVerify"] = JBool(TRUE),
                              !["connectTimeout"] = JNum(<<3, 0>>)], FALSE)),
    IngressRule(h_au, Empty, "http://au", InvalidRaw),
    IngressRule(h_a, p_x, "http://ax", NilRaw),
    IngressRule(Empty, Empty, "http://stray", NilRaw),
    CatchAll }

\* the parser hands over routes with pairwise different keys
UniqueKeys(rs) ==
  \A i, j \in 1..Len(rs) : rs[i].Key = rs[j].Key => i = j

ConfigIdle ==
  /\ cfgRemote = EmptyDocument
  /\ cfgPC = "off"
  /\ cfgConfig = TunnelConfig(<<>>, EmptyDocument)
  /\ cfgRaced = FALSE
  /\ cfgCalls = <<>>

MergeIdle ==
  /\ mrgPC = "off"
  /\ mrgExisting = NilRaw
  /\ mrgRoute = RouteSpec(Empty, Empty, "", None, None)
  /\ mrgFirst = NilRaw
  /\ mrgSecond = NilRaw

ParserIdle ==
  /\ prsContainers = <<>>
  /\ prsPC = "off"
  /\ prsSorted = <<>>
  /\ prsIdx = 0
  /\ prsDesired = <<>>
  /\ prsKeys = {}
  /\ prsErrors = <<>>
  /\ prsCalls = <<>>

ControllerIdle ==
  /\ ctlRunOnce = FALSE
  /\ ctlHasDNS = FALSE
  /\ ctlHasAccess = FALSE
  /\ ctlPC = "off"
  /\ ctlTick = 0
  /\ ctlInvoked = <<>>
  /\ ctlResult = "none"
  /\ ctlLog = <<>>
  /\ ctlPrev = "none"
  /\ ctlReturned = 0
  /\ ctlTickPending = FALSE
  /\ ctlCancelled = FALSE

DNSIdle ==
  /\ manageDNS = FALSE
  /\ deleteDNS = FALSE
  /\ dnsZones = <<>>
  /\ dnsRecords = {}
  /\ dnsPC = "off"
  /\ dnsHostnames = <<>>
  /\ dnsOrdered = <<>>
  /\ dnsZi = 0
  /\ dnsScan = <<>>
  /\ dnsIdx = 0
  /\ dnsCalls = <<>>
  /\ dnsErr = FALSE
  /\ dnsPass = 0
  /\ dnsPrev = "none"

AccessIdle ==
  /\ manageAccess = FALSE
  /\ accApps = <<>>
  /\ accLiveApps = <<>>
  /\ accLivePolicies = <<>>
  /\ accLiveTags = {}
  /\ accPC = "off"
  /\ accIdx = 0
  /\ accExisting = <<>>
  /\ accKnownApps = <<>>
  /\ accKnownPolicies = <<>>
  /\ accDesiredIDs = {}
  /\ accOutcome = <<>>
  /\ accCalls = <<>>
  /\ accErr = FALSE
  /\ accPass = 0
  /\ accPrev = "none"
  /\ accCancelAt = 0

IngressIdle ==
  /\ ingPC = "off"
  /\ ingPass = 0
  /\ ingConfig = <<>>
  /\ ingWrite = <<>>
  /\ ingRemoved = <<>>
  /\ ingCalls = <<>>
  /\ ingErr = FALSE
  /\ manageTunnel = FALSE
  /\ tunnelIngress = <<>>

InitIngress ==
  /\ routes \in {rs \in SeqsUpTo(RouteUniverse, MaxRoutes) : UniqueKeys(rs)}
  /\ dryRun \in BOOLEAN
  /\ manageTunnel \in BOOLEAN
  /\ tunnelIngress \in SeqsUpTo(LiveRuleUniverse, MaxLive)
  /\ ingPC = "start"
  /\ ingPass = 1
  /\ ingConfig = <<>>
  /\ ingWrite = <<>>
  /\ ingRemoved = <<>>
  /\ ingCalls = <<>>
  /\ ingErr = FALSE
  /\ DNSIdle
  /\ AccessIdle
  /\ ControllerIdle
  /\ MergeIdle
  /\ ParserIdle
  /\ ConfigIdle

IngCall(op, ingress, ok) ==
  [op |-> op, pass |-> ingPass, ingress |-> ingress, ok |-> ok]

\* Engine.Reconcile up to the write: GetConfig, buildDesiredIngress,
\* ingressEqual and the gates
IngressGetConfig ==
  /\ ingPC = "start"
  /\ \E ok \in BOOLEAN :
       /\ ingCalls' = Append(ingCalls, IngCall("GetConfig", <<>>, ok))
       /\ IF ~ok
          THEN /\ ingErr' = TRUE
               /\ ingPC' = "done"
               /\ UNCHANGED <<ingConfig, ingWrite, ingRemoved>>
          ELSE LET existingIngress == tunnelIngress
                   desiredIngress == buildDesiredIngress(routes, existingIngress)
                   decision ==
                     IngressDecision(ingressEqual(existingIngress, desiredIngress),
                                     manageTunnel, dryRun)
               IN /\ ingConfig' = existingIngress
                  /\ ingWrite' = desiredIngress
                  /\ ingRemoved' = removedRules(routes, existingIngress)
                  /\ ingErr' = FALSE
                  /\ ingPC' = IF decision = "write" THEN "write" ELSE "done"
  /\ UNCHANGED <<routes, dryRun, manageTunnel, tunnelIngress, ingPass, dnsVars, accVars,
               ctlVars, mrgVars, prsVars, cfgVars>>

\* Engine.Reconcile: config.Ingress = desiredIngress; UpdateConfig
IngressUpdateConfig ==
  /\ ingPC = "write"
  /\ \E ok \in BOOLEAN :
       /\ ingCalls' = Append(ingCalls, IngCall("UpdateConfig", ingWrite, ok))
       /\ tunnelIngress' = IF ok THEN ingWrite ELSE tunnelIngress
       /\ ingErr' = ~ok
  /\ ingPC' = "done"
  /\ UNCHANGED <<routes, dryRun, manageTunnel, ingPass, ingConfig, ingWrite,
                 ingRemoved, dnsVars, accVars, ctlVars, mrgVars, prsVars, cfgVars>>

\* the controller starts the next pass
IngressNextPass ==
  /\ ingPC = "done"
  /\ ingPass < MaxPasses
  /\ ingPass' = ingPass + 1
  /\ ingPC' = "start"
  /\ UNCHANGED <<routes, dryRun, manageTunnel, tunnelIngress, ingConfig,
                 ingWrite, ingRemoved, ingCalls, ingErr, dnsVars, accVars,
                 ctlVars, mrgVars, prsVars, cfgVars>>

NextIngress == IngressGetConfig \/ IngressUpdateConfig \/ IngressNextPass

SpecIngress == InitIngress /\ [][NextIngress]_vars


\* ======================================================================
\* Ingress properties
\* ======================================================================
UpdateConfigCalls(pass) ==
  {i \in 1..Len(ingCalls) :
     ingCalls[i].op = "UpdateConfig" /\ ingCalls[i].pass = pass}

\* the current pass read the configuration and built its rule list
IngressBuilt ==
  /\ ingPC \in {"write", "done"}
  /\ ingWrite # <<>>
  /\ \E i \in 1..Len(ingCalls) :
       ingCalls[i].op = "GetConfig" /\ ingCalls[i].pass = ingPass /\ ingCalls[i].ok

\* C8: UpdateConfig is called only with tunnel management enabled and
\* dry-run off; with management disabled, or with dry-run set, no write is
\* issued whatever the desired routes and the live rules are.
C8_WriteOnlyWhenManagedAndNotDryRun ==
  \A i \in 1..Len(ingCalls) :
    ingCalls[i].op = "UpdateConfig" => (manageTunnel /\ ~dryRun)

\* a pass that found a difference under dry-run with management enabled and
\* ended without a write
C8_Witness ==
  /\ IngressBuilt
  /\ ingPC = "done"
  /\ ~ingressEqual(ingConfig, ingWrite)
  /\ dryRun /\ manageTunnel
  /\ UpdateConfigCalls(ingPass) = {}

\* the first n rules of the emitted list carry pairwise different keys
DistinctKeys(rules, n) ==
  \A i, j \in 1..n :
    (rules[i].Hostname = rules[j].Hostname /\ rules[i].Path = rules[j].Path)
      => i = j

IsCatchAll(rule) == rule.Hostname = Empty /\ rule.Service = FallbackService

\* C10: the emitted rule list ends with exactly one catch-all rule, holds
\* no other rule without a hostname and no two rules with the same
\* (hostname, path) key, for every live list.
C10_EmittedListWellFormed ==
  IngressBuilt =>
    LET n == Len(ingWrite) IN
      /\ IsCatchAll(ingWrite[n])
      /\ \A i \in 1..(n - 1) : ingWrite[i].Hostname # Empty
      /\ DistinctKeys(ingWrite, n)

\* a list built from a live list with two catch-alls, a rule without a
\* hostname and a duplicated key
C10_Witness ==
  /\ IngressBuilt
  /\ Len(routes) = MaxRoutes
  /\ Cardinality({i \in 1..Len(ingConfig) : IsCatchAll(ingConfig[i])}) >= 2
  /\ \/ \E i \in 1..Len(ingConfig) :
          ingConfig[i].Hostname = Empty /\ ~IsCatchAll(ingConfig[i])
     \/ ~DistinctKeys(ingConfig, Len(ingConfig))

\* (hostname, path) compared as a pair: hostname first, then path
PairLess(a, b) ==
  \/ StrLess(a.Hostname, b.Hostname)
  \/ (a.Hostname = b.Hostname /\ StrLess(a.Path, b.Path))

\* the emitted rules are those of the desired routes, one each
OneRulePerRoute(written) ==
  /\ Len(written) = Len(routes) + 1
  /\ \A r \in 1..Len(routes) :
       Cardinality({i \in 1..Len(routes) :
          /\ written[i].Hostname = routes[r].Key.Hostname
          /\ written[i].Path = routes[r].Key.Path
          /\ written[i].Service = routes[r].Service}) = 1
  /\ written[Len(written)] = CatchAll

\* every live rule with a hostname whose key is not desired is reported
RemovalsReported ==
  \A i \in 1..Len(ingConfig) :
    (/\ ingConfig[i].Hostname # Empty
     /\ \A r \in 1..Len(routes) :
          routes[r].Key # RouteKey(ingConfig[i].Hostname, ingConfig[i].Path))
    => \E j \in 1..Len(ingRemoved) :
         /\ ingRemoved[j].Hostname = ingConfig[i].Hostname
         /\ ingRemoved[j].Path = ingConfig[i].Path

\* a managed pass that found a difference and has returned
ManagedPassWithDifference ==
  /\ IngressBuilt
  /\ ingPC = "done"
  /\ manageTunnel /\ ~dryRun
  /\ ~ingressEqual(ingConfig, ingWrite)

\* exactly one UpdateConfig in the pass, carrying the emitted list
OneWriteOfEmittedList ==
  /\ Cardinality(UpdateConfigCalls(ingPass)) = 1
  /\ \A i \in UpdateConfigCalls(ingPass) : ingCalls[i].ingress = ingWrite

\* C9 as stated: the written rules are ordered by the pair (hostname, path)
C9_AsStated ==
  ManagedPassWithDifference =>
    /\ OneWriteOfEmittedList
    /\ OneRulePerRoute(ingWrite)
    /\ \A i, j \in 1..Len(routes) :
         i < j => PairLess(ingWrite[i], ingWrite[j])
    /\ RemovalsReported

\* C9 (amended): with management enabled and dry-run off, a pass that finds
\* a difference issues exactly one UpdateConfig; the list written is one
\* rule per desired route, in ascending byte order of the key string
\* hostname+path, followed by the catch-all; every live rule with a
\* hostname whose key is not desired is reported as a removal.
C9_WriteIsSortedByKeyString ==
  ManagedPassWithDifference =>
    /\ OneWriteOfEmittedList
    /\ OneRulePerRoute(ingWrite)
    /\ \A i, j \in 1..Len(routes) :
         i < j => ~StrLess(ingressRuleKey(ingWrite[j]), ingressRuleKey(ingWrite[i]))
    /\ RemovalsReported

\* scenario A: desired a.example.com against live [b.example.com, catch-all]
C9_Witness ==
  /\ ManagedPassWithDifference
  /\ routes = <<RouteSpec(h_a, Empty, "http://a:80", None, None)>>
  /\ ingConfig = <<IngressRule(h_b, Empty, "http://b", NilRaw), CatchAll>>
  /\ ingWrite = <<IngressRule(h_a, Empty, "http://a:80", NilRaw), CatchAll>>
  /\ ingRemoved = <<IngressRule(h_b, Empty, "http://b", NilRaw)>>
  /\ tunnelIngress = ingWrite

\* the calls of a pass
IngressCallsOfPass(pass) == {i \in 1..Len(ingCalls) : ingCalls[i].pass = pass}

\* the pass ran to its end without a failed remote call
IngressPassSucceeded(pass) ==
  /\ IngressCallsOfPass(pass) # {}
  /\ \A i \in IngressCallsOfPass(pass) : ingCalls[i].ok
  /\ (ingPass > pass \/ ingPC = "done")

\* C11: with management enabled and dry-run off, a pass that follows a pass
\* without failed calls issues no UpdateConfig; and a pass whose emitted list
\* equals the live list element by element issues no UpdateConfig at all.
C11_IngressIdempotent ==
  /\ (manageTunnel /\ ~dryRun /\ ingPass >= 2 /\ IngressPassSucceeded(ingPass - 1))
       => UpdateConfigCalls(ingPass) = {}
  /\ (IngressBuilt /\ ingressEqual(ingConfig, ingWrite))
       => (ingPC = "done" /\ UpdateConfigCalls(ingPass) = {})

\* a second pass that ended without a write after a first pass that wrote a
\* list holding a rule with origin options
C11_Witness ==
  /\ manageTunnel /\ ~dryRun
  /\ ingPass = 2 /\ ingPC = "done" /\ ~ingErr
  /\ IngressPassSucceeded(1)
  /\ \E i \in UpdateConfigCalls(1) :
       \E k \in 1..Len(ingCalls[i].ingress) :
         ingCalls[i].ingress[k].OriginRequest.kind = "obj"
  /\ UpdateConfigCalls(2) = {}
  /\ ingressEqual(ingConfig, ingWrite)

\* the positions of the live rules the removal report is about: a hostname,
\* the first live rule of its key, the key not desired
RemovalPositions ==
  {i \in 1..Len(ingConfig) :
     /\ ingConfig[i].Hostname # Empty
     /\ \A j \in 1..(i - 1) :
          ~(ingConfig[j].Hostname = ingConfig[i].Hostname
            /\ ingConfig[j].Path = ingConfig[i].Path)
     /\ \A r \in 1..Len(routes) :
          routes[r].Key # RouteKey(ingConfig[i].Hostname, ingConfig[i].Path)}

\* the first live rule with the key of the route, 0 when there is none
FirstLiveOf(route) ==
  IF \E i \in 1..Len(ingConfig) :
       ingConfig[i].Hostname # Empty
       /\ RouteKey(ingConfig[i].Hostname, ingConfig[i].Path) = route.Key
  THEN CHOOSE i \in 1..Len(ingConfig) :
         /\ ingConfig[i].Hostname # Empty
         /\ RouteKey(ingConfig[i].Hostname, ingConfig[i].Path) = route.Key
         /\ \A j \in 1..(i - 1) :
              RouteKey(ingConfig[j].Hostname, ingConfig[j].Path) # route.Key
  ELSE 0

ZoneExample == Zone("z1", z_example)
ZoneAPI == Zone("z2", z_api)

\* the zone lists ListZones may return
ZoneListUniverse ==
  { <<>>, <<ZoneExample>>, <<ZoneAPI>>, <<ZoneExample, ZoneAPI>>,
    <<ZoneAPI, ZoneExample>> }

\* the records the remote may hold at the start
RecordUniverse ==
  { DNSRecord(1, "z1", "CNAME", h_svc, tunnelTarget, TRUE, managedComment),
    DNSRecord(2, "z1", "CNAME", h_svc, c_other, TRUE, "manual"),
    DNSRecord(3, "z1", "CNAME", h_old, tunnelTarget, TRUE, managedComment),
    DNSRecord(4, "z1", "CNAME", h_svc_raw, c_target_upper, FALSE, managedComment),
    DNSRecord(5, "z2", "CNAME", h_svc_api, c_target_upper, FALSE, ""),
    DNSRecord(6, "z1", "A", h_svc, c_other, FALSE, managedComment),
    DNSRecord(7, "z1", "CNAME", h_svc_api, tunnelTarget, TRUE, managedComment) }

DNSRouteUniverse ==
  { RouteSpec(h_svc, Empty, "http://svc", None, None),
    RouteSpec(h_svc_raw, Empty, "http://svc", None, None),
    RouteSpec(h_svc_api, Empty, "http://api", None, None) }

\* the identifier the remote gives a created record
NewRecordID(remote) ==
  1 + Cardinality(RecordUniverse) + Cardinality({r \in remote : r.ID > Cardinality(RecordUniverse)})

InitDNS ==
  /\ routes \in {rs \in SeqsUpTo(DNSRouteUniverse, MaxRoutes) : UniqueKeys(rs)}
  /\ dryRun \in BOOLEAN
  /\ manageDNS \in BOOLEAN
  /\ deleteDNS \in BOOLEAN
  /\ dnsZones \in ZoneListUniverse
  /\ dnsRecords \in {S \in SUBSET RecordUniverse : Cardinality(S) <= MaxRecords}
  /\ dnsPC = "start"
  /\ dnsHostnames = <<>>
  /\ dnsOrdered = <<>>
  /\ dnsZi = 0
  /\ dnsScan = <<>>
  /\ dnsIdx = 0
  /\ dnsCalls = <<>>
  /\ dnsErr = FALSE
  /\ dnsPass = 1
  /\ dnsPrev = "none"
  /\ IngressIdle
  /\ AccessIdle
  /\ ControllerIdle
  /\ MergeIdle
  /\ ParserIdle
  /\ ConfigIdle

DnsCall(op, zone, name, record, result, ok) ==
  [op |-> op, zone |-> zone, name |-> name, record |-> record,
   result |-> result, ok |-> ok]

\* knownHostnames of the zone at index zi
KnownHostnames(zi) == filterHostnamesForZone(dnsHostnames, dnsOrdered[zi].Name)

\* a zone loop that ends with the first zone
AfterZone_Stops(zi) == <<"done", zi, 0>>

\* where the zone loop continues after zone zi: <<pc, zone index, loop index>>
AfterZone(zi) ==
  IF zi < Len(dnsOrdered) THEN <<"zone", zi + 1, 0>> ELSE <<"done", zi, 0>>

\* where Reconcile continues after the deletion loop of zone zi
AfterDeletes(zi) ==
  IF KnownHostnames(zi) # <<>> THEN <<"upsert", zi, 1>> ELSE AfterZone(zi)

\* where Reconcile continues after record idx of the deletion loop
AfterRecord(zi, idx, scan) ==
  IF idx < Len(scan) THEN <<"delete", zi, idx + 1>> ELSE AfterDeletes(zi)

\* where Reconcile continues after hostname idx of the upsert loop
AfterHostname(zi, idx) ==
  IF idx < Len(KnownHostnames(zi)) THEN <<"upsert", zi, idx + 1>> ELSE AfterZone(zi)

DNSGoto(pos) ==
  /\ dnsPC' = pos[1]
  /\ dnsZi' = pos[2]
  /\ dnsIdx' = pos[3]

DNSFrame == UNCHANGED <<routes, dryRun, manageDNS, deleteDNS, dnsZones, dnsPass,
                      dnsPrev, ingVars, accVars, ctlVars, mrgVars, prsVars, cfgVars>>

\* Engine.Reconcile: the early returns, uniqueHostnames, ListZones, orderZones
DNSStart ==
  /\ dnsPC = "start"
  /\ LET hostnames == uniqueHostnames(routes) IN
     IF ~manageDNS \/ (Len(hostnames) = 0 /\ ~deleteDNS)
     THEN /\ dnsPC' = "done"
          /\ UNCHANGED <<dnsHostnames, dnsOrdered, dnsZi, dnsIdx, dnsCalls, dnsErr>>
     ELSE \E ok \in BOOLEAN :
          /\ dnsCalls' = Append(dnsCalls,
               DnsCall("ListZones", "", Empty, NoRecord, <<>>, ok))
          /\ dnsErr' = ~ok
          /\ dnsHostnames' = hostnames
          /\ IF ok /\ dnsZones # <<>>
             THEN /\ dnsOrdered' = orderZones(dnsZones)
                  /\ DNSGoto(<<"zone", 1, 0>>)
             ELSE /\ dnsOrdered' = <<>>
                  /\ DNSGoto(<<"done", 0, 0>>)
  /\ UNCHANGED <<dnsRecords, dnsScan>>
  /\ DNSFrame

\* the zone loop: ListDNSRecords(zone, CNAME, "") for the deletion pass
DNSListZone ==
  /\ dnsPC = "zone"
  /\ LET zone == dnsOrdered[dnsZi] IN
     \E ok \in BOOLEAN :
       LET records == IF ok THEN ListedRecords(dnsRecords, zone.ID, dnsRecordType, Empty)
                      ELSE <<>>
       IN /\ dnsCalls' = Append(dnsCalls,
               DnsCall("ListDNSRecords", zone.ID, Empty, NoRecord, records, ok))
          /\ dnsScan' = records
          /\ IF ~ok THEN DNSGoto(AfterZone(dnsZi))
             ELSE IF records # <<>> THEN DNSGoto(<<"delete", dnsZi, 1>>)
             ELSE DNSGoto(AfterDeletes(dnsZi))
  /\ UNCHANGED <<dnsRecords, dnsHostnames, dnsOrdered, dnsErr>>
  /\ DNSFrame

\* the deletion loop: one listed record
DNSDeleteStep ==
  /\ dnsPC = "delete"
  /\ LET zone == dnsOrdered[dnsZi]
         record == dnsScan[dnsIdx]
         decision == DeleteDecision(record, KnownHostnames(dnsZi), deleteDNS, dryRun)
     IN IF decision = "delete"
        THEN \E ok \in BOOLEAN :
             /\ dnsCalls' = Append(dnsCalls,
                  DnsCall("DeleteDNSRecord", zone.ID, record.Name, record, <<>>, ok))
             /\ dnsRecords' =
                  IF ok THEN {r \in dnsRecords : ~(r.Zone = zone.ID /\ r.ID = record.ID)}
                  ELSE dnsRecords
        ELSE UNCHANGED <<dnsCalls, dnsRecords>>
  /\ DNSGoto(AfterRecord(dnsZi, dnsIdx, dnsScan))
  /\ UNCHANGED <<dnsHostnames, dnsOrdered, dnsScan, dnsErr>>
  /\ DNSFrame

\* the upsert loop: one hostname of the zone
DNSUpsertStep ==
  /\ dnsPC = "upsert"
  /\ LET zone == dnsOrdered[dnsZi]
         hostname == KnownHostnames(dnsZi)[dnsIdx]
         desired == DesiredRecord(hostname)
     IN \E okList, okWrite \in BOOLEAN :
        LET records == IF okList
                       THEN ListedRecords(dnsRecords, zone.ID, dnsRecordType, hostname)
                       ELSE <<>>
            lookup == DnsCall("ListDNSRecords", zone.ID, hostname, NoRecord, records, okList)
            decision == IF okList THEN UpsertDecision(records, desired, dryRun)
                        ELSE "list-failed"
        IN CASE decision = "create" ->
                  LET created == DNSRecord(NewRecordID(dnsRecords), zone.ID, desired.Type,
                                           desired.Name, desired.Content, desired.Proxied,
                                           desired.Comment)
                  IN /\ dnsCalls' = dnsCalls \o
                          <<lookup, DnsCall("CreateDNSRecord", zone.ID, hostname, created, <<>>, okWrite)>>
                     /\ dnsRecords' = IF okWrite THEN dnsRecords \cup {created} ELSE dnsRecords
             [] decision = "update" ->
                  LET record == records[1]
                      updated == DNSRecord(record.ID, zone.ID, desired.Type, desired.Name,
                                           desired.Content, desired.Proxied, desired.Comment)
                  IN /\ dnsCalls' = dnsCalls \o
                          <<lookup, DnsCall("UpdateDNSRecord", zone.ID, hostname, record, <<>>, okWrite)>>
                     /\ dnsRecords' =
                          IF okWrite
                          THEN {r \in dnsRecords : ~(r.Zone = zone.ID /\ r.ID = record.ID)}
                                 \cup {updated}
                          ELSE dnsRecords
             [] OTHER ->
                  /\ okWrite
                  /\ dnsCalls' = Append(dnsCalls, lookup)
                  /\ UNCHANGED dnsRecords
  /\ DNSGoto(AfterHostname(dnsZi, dnsIdx))
  /\ UNCHANGED <<dnsHostnames, dnsOrdered, dnsScan, dnsErr>>
  /\ DNSFrame

\* the controller starts the next pass with the same routes; the call log
\* is that of the current pass, of the pass before only its outcome is kept
DNSNextPass ==
  /\ dnsPC = "done"
  /\ dnsPass < MaxDNSPasses
  /\ dnsPass' = dnsPass + 1
  /\ dnsPrev' = IF ~dnsErr /\ \A i \in 1..Len(dnsCalls) : dnsCalls[i].ok
                THEN "clean" ELSE "failed"
  /\ dnsPC' = "start"
  /\ dnsHostnames' = <<>>
  /\ dnsOrdered' = <<>>
  /\ dnsZi' = 0
  /\ dnsScan' = <<>>
  /\ dnsIdx' = 0
  /\ dnsCalls' = <<>>
  /\ dnsErr' = FALSE
  /\ UNCHANGED <<routes, dryRun, manageDNS, deleteDNS, dnsZones, dnsRecords,
                 ingVars, accVars, ctlVars, mrgVars, prsVars, cfgVars>>

NextDNS == DNSStart \/ DNSListZone \/ DNSDeleteStep \/ DNSUpsertStep \/ DNSNextPass

SpecDNS == InitDNS /\ [][NextDNS]_vars


\* ======================================================================
\* DNS properties
\* ======================================================================
DNSMutations == {"CreateDNSRecord", "UpdateDNSRecord", "DeleteDNSRecord"}

\* the position of the zone with the given identifier
ZoneIndex(id) ==
  CHOOSE i \in 1..Len(dnsZones) : dnsZones[i].ID = id

\* the desired hostnames, lower-cased and without trailing dot
DesiredHostnames ==
  {NormalizeName(TrimSpace(routes[i].Key.Hostname)) : i \in 1..Len(routes)}

\* the hostname is desired and falls in the zone
DesiredInZone(name, zoneID) ==
  /\ NormalizeName(name) \in DesiredHostnames
  /\ HostInZone(name, dnsZones[ZoneIndex(zoneID)].Name)

\* C5: DeleteDNSRecord is called only on a CNAME record whose comment is
\* the ownership marker and whose normalised name is not a desired hostname
\* of the zone being processed, and only with the delete flag on and
\* dry-run off; a record with another comment is never deleted.
C5_DeleteOnlyOwnedStaleRecords ==
  \A i \in 1..Len(dnsCalls) :
    dnsCalls[i].op = "DeleteDNSRecord" =>
      /\ dnsCalls[i].record.Type = "CNAME"
      /\ dnsCalls[i].record.Comment = managedComment
      /\ dnsCalls[i].record.Zone = dnsCalls[i].zone
      /\ ~DesiredInZone(dnsCalls[i].record.Name, dnsCalls[i].zone)
      /\ deleteDNS
      /\ ~dryRun

\* a finished pass that deleted a stale owned record and left a stale
\* CNAME record with a foreign comment in the same zone
C5_Witness ==
  /\ dnsPC = "done"
  /\ \E i \in 1..Len(dnsCalls) :
       /\ dnsCalls[i].op = "DeleteDNSRecord"
       /\ dnsCalls[i].ok
       /\ dnsCalls[i].record \notin dnsRecords
       /\ \E r \in dnsRecords :
            /\ r.Zone = dnsCalls[i].zone
            /\ r.Type = "CNAME"
            /\ r.Comment # managedComment
            /\ ~DesiredInZone(r.Name, r.Zone)

\* the lookup returned several records, or one record that neither carries
\* the marker nor points at the tunnel
BlockedLookup(result) ==
  \/ Len(result) > 1
  \/ /\ Len(result) = 1
     /\ result[1].Comment # managedComment
     /\ ~EqualFold(result[1].Content, tunnelTarget)

\* C6: when the by-name lookup of a hostname in a zone returns several
\* records, or one record with a foreign comment and a foreign content, the
\* pass issues no create, update or delete for that hostname in that zone.
C6_NoWriteOnForeignOrAmbiguous ==
  \A i \in 1..Len(dnsCalls) :
    (/\ dnsCalls[i].op = "ListDNSRecords"
     /\ dnsCalls[i].name # Empty
     /\ dnsCalls[i].ok
     /\ BlockedLookup(dnsCalls[i].result))
    => \A j \in 1..Len(dnsCalls) :
         (dnsCalls[j].op \in DNSMutations /\ dnsCalls[j].zone = dnsCalls[i].zone)
           => NormalizeName(dnsCalls[j].name) # dnsCalls[i].name

\* scenario E in a managed pass with deletion enabled: one foreign record
\* was found for a desired hostname and is still there, unchanged
C6_Witness ==
  /\ dnsPC = "done"
  /\ manageDNS /\ deleteDNS /\ ~dryRun
  /\ \E i \in 1..Len(dnsCalls) :
       /\ dnsCalls[i].op = "ListDNSRecords"
       /\ dnsCalls[i].name = h_svc
       /\ dnsCalls[i].ok
       /\ Len(dnsCalls[i].result) = 1
       /\ BlockedLookup(dnsCalls[i].result)
       /\ dnsCalls[i].result[1] \in dnsRecords

\* C7 as stated: a hostname is looked up, created and updated only in the
\* matching zone with the longest name.
C7_AsStated ==
  \A i \in 1..Len(dnsCalls) :
    (/\ dnsCalls[i].op \in {"ListDNSRecords", "CreateDNSRecord", "UpdateDNSRecord"}
     /\ dnsCalls[i].name # Empty)
    => dnsCalls[i].zone = matchZone(dnsCalls[i].name, dnsOrdered).zone.ID

\* positions in the call log of the create, update and delete calls
DNSMutationCalls == {i \in 1..Len(dnsCalls) : dnsCalls[i].op \in DNSMutations}

C14_DNSWritesOnlyManagedAndNotDryRun ==
  /\ \A i \in 1..Len(dnsCalls) :
       dnsCalls[i].op \in {"CreateDNSRecord", "UpdateDNSRecord"}
         => (manageDNS /\ ~dryRun)
  /\ dryRun => DNSMutationCalls = {}

\* a finished dry-run pass with deletion enabled whose zone listing returned
\* a stale owned record and whose by-name lookup found no record for a
\* desired hostname: both were read, nothing was written
C14_Witness ==
  /\ dryRun /\ manageDNS /\ deleteDNS
  /\ dnsPC = "done"
  /\ DNSMutationCalls = {}
  /\ \E i \in 1..Len(dnsCalls) :
       /\ dnsCalls[i].op = "ListDNSRecords"
       /\ dnsCalls[i].name = Empty
       /\ dnsCalls[i].ok
       /\ \E k \in 1..Len(dnsCalls[i].result) :
            /\ dnsCalls[i].result[k].Comment = managedComment
            /\ ~DesiredInZone(dnsCalls[i].result[k].Name, dnsCalls[i].zone)
  /\ \E i \in 1..Len(dnsCalls) :
       /\ dnsCalls[i].op = "ListDNSRecords"
       /\ dnsCalls[i].name # Empty
       /\ dnsCalls[i].ok
       /\ dnsCalls[i].result = <<>>

\* a CNAME record of a listed zone that carries the ownership marker and
\* whose name is not a desired hostname of that zone
StaleOwnedRecord(r) ==
  /\ r.Type = "CNAME"
  /\ r.Comment = managedComment
  /\ \E z \in 1..Len(dnsZones) : dnsZones[z].ID = r.Zone
  /\ ~DesiredInZone(r.Name, r.Zone)

\* C15 as stated: with DNS management disabled nothing is created or
\* updated and, without the delete flag, no call is made at all; with
\* management disabled and the delete flag on the deletion pass still runs,
\* so that after a pass without dry-run and without a failed call no stale
\* owned CNAME record is left.
C15_AsStated ==
  /\ ~manageDNS =>
       \A i \in 1..Len(dnsCalls) :
         dnsCalls[i].op \notin {"CreateDNSRecord", "UpdateDNSRecord"}
  /\ (~manageDNS /\ ~deleteDNS) => dnsCalls = <<>>
  /\ (/\ ~manageDNS /\ deleteDNS /\ ~dryRun
      /\ dnsPC = "done"
      /\ \A i \in 1..Len(dnsCalls) : dnsCalls[i].ok)
     => \A r \in dnsRecords : ~StaleOwnedRecord(r)

\* ======================================================================
\* The DNS reconciler while routes go away
\* ======================================================================
\* records at the start: two that point at the tunnel without the marker
\* comment, an owned one and a foreign one
AdoptRecordUniverse ==
  { DNSRecord(5, "z2", "CNAME", h_svc_api, c_target_upper, FALSE, ""),
    DNSRecord(3, "z1", "CNAME", h_svc, tunnelTarget, TRUE, "manual"),
    DNSRecord(1, "z1", "CNAME", h_svc, tunnelTarget, TRUE, managedComment),
    DNSRecord(2, "z1", "CNAME", h_svc, c_other, TRUE, "manual") }

AdoptZoneLists ==
  { <<ZoneExample>>, <<ZoneExample, ZoneAPI>>, <<ZoneAPI, ZoneExample>> }

\* Engine.Reconcile started on the first pass of a process
InitDNSAdopt ==
  /\ routes \in {rs \in SeqsUpTo(DNSRouteUniverse, MaxRoutes) : UniqueKeys(rs)}
  /\ dryRun \in BOOLEAN
  /\ manageDNS \in BOOLEAN
  /\ deleteDNS \in BOOLEAN
  /\ dnsZones \in AdoptZoneLists
  /\ dnsRecords \in {S \in SUBSET AdoptRecordUniverse : Cardinality(S) <= MaxRecords}
  /\ dnsPC = "start"
  /\ dnsHostnames = <<>>
  /\ dnsOrdered = <<>>
  /\ dnsZi = 0
  /\ dnsScan = <<>>
  /\ dnsIdx = 0
  /\ dnsCalls = <<>>
  /\ dnsErr = FALSE
  /\ dnsPass = 1
  /\ dnsPrev = "none"
  /\ IngressIdle
  /\ AccessIdle
  /\ ControllerIdle
  /\ MergeIdle
  /\ ParserIdle
  /\ ConfigIdle

\* the routes without the one at position k
WithoutRoute(rs, k) == SubSeq(rs, 1, k - 1) \o SubSeq(rs, k + 1, Len(rs))

\* the controller starts the next pass after a container went away: the
\* routes are those of the pass before without one; the call log goes on
DNSRoutesRemoved ==
  /\ dnsPC = "done"
  /\ dnsPass < MaxDNSPasses
  /\ \E k \in 1..Len(routes) : routes' = WithoutRoute(routes, k)
  /\ dnsPass' = dnsPass + 1
  /\ dnsPrev' = IF ~dnsErr /\ \A i \in 1..Len(dnsCalls) : dnsCalls[i].ok
                THEN "clean" ELSE "failed"
  /\ dnsPC' = "start"
  /\ dnsHostnames' = <<>>
  /\ dnsOrdered' = <<>>
  /\ dnsZi' = 0
  /\ dnsScan' = <<>>
  /\ dnsIdx' = 0
  /\ dnsErr' = FALSE
  /\ UNCHANGED <<dryRun, manageDNS, deleteDNS, dnsZones, dnsRecords, dnsCalls,
                 ingVars, accVars, ctlVars, mrgVars, prsVars, cfgVars>>

NextDNSAdopt ==
  DNSStart \/ DNSListZone \/ DNSDeleteStep \/ DNSUpsertStep \/ DNSRoutesRemoved

SpecDNSAdopt == InitDNSAdopt /\ [][NextDNSAdopt]_vars

\* ======================================================================
\* Properties of the DNS reconciler while routes go away
\* ======================================================================
\* the lookups of the upsert loop that succeeded
DNSLookups ==
  {i \in 1..Len(dnsCalls) :
     /\ dnsCalls[i].op = "ListDNSRecords"
     /\ dnsCalls[i].name # Empty
     /\ dnsCalls[i].ok}

\* the lookup returned a single CNAME that points at the tunnel target and
\* has another comment than the marker
UpdateEligible(i) ==
  /\ i \in DNSLookups
  /\ Len(dnsCalls[i].result) = 1
  /\ dnsCalls[i].result[1].Type = dnsRecordType
  /\ EqualFold(dnsCalls[i].result[1].Content, tunnelTarget)
  /\ dnsCalls[i].result[1].Comment # managedComment

\* the call after the lookup is the update of the record it returned
UpdateFollows(i) ==
  /\ i + 1 <= Len(dnsCalls)
  /\ dnsCalls[i + 1].op = "UpdateDNSRecord"
  /\ dnsCalls[i + 1].zone = dnsCalls[i].zone
  /\ dnsCalls[i + 1].record = dnsCalls[i].result[1]

\* the lookups whose record the pass made its own
Adoptions ==
  {i \in 1..Len(dnsCalls) : UpdateEligible(i) /\ UpdateFollows(i) /\ dnsCalls[i + 1].ok}

\* the deletes of the record the lookup at i returned, after position from
DeletesOf(i, from) ==
  {j \in 1..Len(dnsCalls) :
     /\ j > from
     /\ dnsCalls[j].op = "DeleteDNSRecord"
     /\ dnsCalls[j].zone = dnsCalls[i].zone
     /\ dnsCalls[j].record.ID = dnsCalls[i].result[1].ID}

\* the record the lookup at i returned, as the remote holds it now
RemoteRecordOf(i) ==
  {r \in dnsRecords : r.Zone = dnsCalls[i].zone /\ r.ID = dnsCalls[i].result[1].ID}

ListZonesCalls == {i \in 1..Len(dnsCalls) : dnsCalls[i].op = "ListZones"}

\* where the calls of the second pass begin, once both passes have called
\* ListZones
SecondPassStart == CHOOSE i \in ListZonesCalls : \A j \in ListZonesCalls : j <= i

\* the second pass listed the records of the zone
ListedInSecondPass(zone) ==
  \E j \in 1..Len(dnsCalls) :
    /\ j > SecondPassStart
    /\ dnsCalls[j].op = "ListDNSRecords"
    /\ dnsCalls[j].name = Empty
    /\ dnsCalls[j].zone = zone
    /\ dnsCalls[j].ok

PManagedByName == AccessPolicySpec(NoID, n_allow, a_allow, <<e_User>>, <<>>, TRUE)
\* a managed policy with an explicit identifier
PManagedByID == AccessPolicySpec(3, n_byid, a_deny, <<e_user>>, <<>>, TRUE)
\* reference-only policies, by name and by identifier
PRefByName == AccessPolicySpec(NoID, n_allow, Empty, <<>>, <<>>, FALSE)
PRefByID == AccessPolicySpec(4, Empty, Empty, <<>>, <<>>, FALSE)

AppUniverse ==
  { AccessAppSpec(NoID, n_app, d_app, <<PManagedByName>>, <<>>, FALSE),
    AccessAppSpec(NoID, n_app, d_app, <<PRefByName>>, <<>>, FALSE),
    AccessAppSpec(3, n_web, d_web, <<PManagedByID, PRefByID>>, <<t_team>>, TRUE),
    AccessAppSpec(NoID, n_web, d_web, <<PRefByID>>, <<>>, FALSE) }

\* accessAppKey.String of the label parser: name@domain
AppKeyString(app) == app.Name \o <<64>> \o app.Domain

\* the parser hands over apps with pairwise different keys, sorted by key
SortedAppKeys(as) ==
  \A i \in 1..Len(as) - 1 : StrLess(AppKeyString(as[i]), AppKeyString(as[i + 1]))

DesiredAppLists == {as \in SeqsUpTo(AppUniverse, MaxApps) : SortedAppKeys(as)}


LivePolicyUniverse ==
  << AccessPolicyRecord(1, n_allow, a_allow, <<AccessRule(e_user, Empty)>>, FALSE),
     AccessPolicyRecord(2, n_Allow, a_deny, <<>>, TRUE),
     AccessPolicyRecord(3, n_byid, a_allow, <<>>, FALSE),
     AccessPolicyRecord(4, n_scoped, a_deny, <<AccessRule(Empty, ip_office)>>, FALSE) >>

LivePolicyLists ==
  { <<>>, <<LivePolicyUniverse[1]>>, <<LivePolicyUniverse[1], LivePolicyUniverse[2]>>,
    <<LivePolicyUniverse[1], LivePolicyUniverse[3]>>,
    <<LivePolicyUniverse[3], LivePolicyUniverse[4]>> }

LiveAppUniverse ==
  << AccessAppRecord(1, n_app, d_app, "self_hosted", <<AccessPolicyRef(1, 1)>>,
                     <<managedTag>>),
     AccessAppRecord(2, n_App, d_app, "", <<>>, <<>>),
     AccessAppRecord(3, n_web, d_web, "self_hosted",
                     <<AccessPolicyRef(3, 1), AccessPolicyRef(4, 2)>>,
                     <<t_team, managedTag>>),
     AccessAppRecord(4, n_web, d_web, "self_hosted", <<AccessPolicyRef(4, 1)>>,
                     <<t_team>>) >>

\* the apps of the universe with an identifier in ids, in order of identifier
LiveAppList(ids) == SelectSeq(LiveAppUniverse, LAMBDA a : a.ID \in ids)

\* the largest identifier of a policy and of an app that exist at the start
PolicyBase == Len(LivePolicyUniverse)
AppBase == Len(LiveAppUniverse)

LiveAppLists ==
  {LiveAppList(ids) : ids \in {S \in SUBSET (1..AppBase) : Cardinality(S) <= MaxLiveApps}}

TagsOf(apps) == UNION {{a.Tags[i] : i \in 1..Len(a.Tags)} : a \in {apps[k] : k \in 1..Len(apps)}}

InitAccess ==
  /\ routes = <<>>
  /\ dryRun \in BOOLEAN
  /\ manageAccess \in BOOLEAN
  /\ accApps \in DesiredAppLists
  /\ accLiveApps \in LiveAppLists
  /\ accLivePolicies \in LivePolicyLists
  /\ accLiveTags = TagsOf(accLiveApps)
  /\ accPC = "start"
  /\ accIdx = 0
  /\ accExisting = <<>>
  /\ accKnownApps = <<>>
  /\ accKnownPolicies = <<>>
  /\ accDesiredIDs = {}
  /\ accOutcome = <<>>
  /\ accCalls = <<>>
  /\ accErr = FALSE
  /\ accPass = 1
  /\ accPrev = "none"
  /\ accCancelAt = 0
  /\ IngressIdle
  /\ DNSIdle
  /\ ControllerIdle
  /\ MergeIdle
  /\ ParserIdle
  /\ ConfigIdle

AccessFrame == UNCHANGED <<routes, dryRun, manageAccess, accApps, accPass, accPrev,
                         accCancelAt, ingVars, dnsVars, ctlVars, mrgVars, prsVars, cfgVars>>

\* Reconcile returning after the app loop, without deleteOrphanedApps
AfterApps_NoCleanup(existing) == <<"done", 0>>

\* where Reconcile goes once the app loop is over: deleteOrphanedApps
\* returns at once when management is off
AfterApps(existing) ==
  IF manageAccess /\ Len(existing) > 0 THEN <<"orphans", 1>> ELSE <<"done", 0>>

AfterApp(idx, existing) ==
  IF idx < Len(accApps) THEN <<"apps", idx + 1>> ELSE AfterApps(existing)

AfterOrphan(idx) ==
  IF idx < Len(accExisting) THEN <<"orphans", idx + 1>> ELSE <<"done", 0>>

AccessGoto(pos) ==
  /\ accPC' = pos[1]
  /\ accIdx' = pos[2]

\* encodePolicyRefs: references without an identifier are not sent
encodePolicyRefs(refs) == SelectSeq(refs, LAMBDA r : r.ID # NoID)

\* accessAppType
accessAppType(value) == IF value = "" THEN "self_hosted" ELSE value

\* the record the remote stores for, and answers to, a written app
WrittenApp(id, input) ==
  AccessAppRecord(id, input.Name, input.Domain, accessAppType(input.Type),
                  encodePolicyRefs(input.Policies), input.Tags)

\* Engine.Reconcile: the early return and the two listings
AccessStart ==
  /\ accPC = "start"
  /\ IF Len(accApps) = 0 /\ ~manageAccess
     THEN /\ AccessGoto(<<"done", 0>>)
          /\ UNCHANGED <<accExisting, accKnownApps, accKnownPolicies, accCalls, accErr>>
     ELSE \E okApps, okPolicies \in IF accCancelAt = 0 THEN BOOLEAN ELSE {FALSE} :
            LET listApps == AccCall("ListAccessApps", 0, NoID, Empty, <<>>, <<>>, okApps)
                listPolicies == AccCall("ListAccessPolicies", 0, NoID, Empty, <<>>, <<>>,
                                        okPolicies)
            IN IF ~okApps
               THEN /\ accCalls' = Append(accCalls, listApps)
                    /\ accErr' = TRUE
                    /\ AccessGoto(<<"done", 0>>)
                    /\ UNCHANGED <<accExisting, accKnownApps, accKnownPolicies>>
               ELSE IF Len(accApps) > 0 /\ ~okPolicies
               THEN /\ accCalls' = accCalls \o <<listApps, listPolicies>>
                    /\ accErr' = TRUE
                    /\ AccessGoto(<<"done", 0>>)
                    /\ UNCHANGED <<accExisting, accKnownApps, accKnownPolicies>>
               ELSE /\ accCalls' = IF Len(accApps) > 0
                                   THEN accCalls \o <<listApps, listPolicies>>
                                   ELSE Append(accCalls, listApps)
                    /\ accExisting' = accLiveApps
                    /\ accKnownApps' = accLiveApps
                    /\ accKnownPolicies' = IF Len(accApps) > 0 THEN accLivePolicies ELSE <<>>
                    /\ accErr' = FALSE
                    /\ AccessGoto(IF Len(accApps) > 0 THEN <<"apps", 1>>
                                  ELSE AfterApps(accLiveApps))
  /\ UNCHANGED <<accLiveApps, accLivePolicies, accLiveTags, accDesiredIDs, accOutcome>>
  /\ AccessFrame

\* Engine.Reconcile, lines 110-117: CreateAccessApp with the built input
CreateAppStep(st, idx, input, created, failApp) ==
  IF failApp
  THEN [st EXCEPT
          !.calls = Append(@, AccCall("CreateAccessApp", idx, NoID, input.Name,
                                      input.Policies, input.Tags, FALSE)),
          !.outcome = "create-failed"]
  ELSE [st EXCEPT
          !.calls = Append(@, AccCall("CreateAccessApp", idx, created.ID, input.Name,
                                      input.Policies, input.Tags, TRUE)),
          !.liveApps = Append(@, created),
          !.knownApps = Append(@, created),
          !.desiredIDs = @ \cup {created.ID},
          !.outcome = "created"]

\* Engine.Reconcile, lines 120-139: the resolved app is wanted, and updated
\* when it differs from the built input
UpdateAppStep(st, idx, record, input, manage, dry, failApp) ==
  IF ~appNeedsUpdate(record, input) THEN [st EXCEPT !.outcome = "unchanged"]
  ELSE IF ~manage THEN [st EXCEPT !.outcome = "update-skipped-unmanaged"]
  ELSE IF dry THEN [st EXCEPT !.outcome = "update-skipped-dry-run"]
  ELSE IF failApp
  THEN [st EXCEPT
          !.calls = Append(@, AccCall("UpdateAccessApp", idx, record.ID, input.Name,
                                      input.Policies, input.Tags, FALSE)),
          !.outcome = "update-failed"]
  ELSE [st EXCEPT
          !.calls = Append(@, AccCall("UpdateAccessApp", idx, record.ID, input.Name,
                                      input.Policies, input.Tags, TRUE)),
          !.liveApps = ReplaceByID(@, record.ID, WrittenApp(record.ID, input)),
          !.knownApps = Append(@, WrittenApp(record.ID, input)),
          !.outcome = "updated"]

\* Engine.Reconcile, lines 100-139: r is the result of resolveAccessApp
ResolvedAppStep(st, idx, appSpec, refs, r, tagging, manage, dry, failApp, base) ==
  IF ~r.found
  THEN IF ~manage THEN [st EXCEPT !.outcome = "create-skipped-unmanaged"]
       ELSE IF dry THEN [st EXCEPT !.outcome = "create-skipped-dry-run"]
       ELSE CreateAppStep(st, idx, buildAppInput(appSpec, refs, <<>>, tagging),
                          WrittenApp(NewID(st.liveApps, base),
                                     buildAppInput(appSpec, refs, <<>>, tagging)),
                          failApp)
  ELSE UpdateAppStep([st EXCEPT !.desiredIDs = @ \cup {r.record.ID}], idx, r.record,
                     buildAppInput(appSpec, refs, r.record.Tags, tagging),
                     manage, dry, failApp)

\* an appSpec that keeps the tags that could be ensured
AppSpecAfterTags_KeepsEnsured(app, ensureTags, t) ==
  IF ~ensureTags THEN app ELSE [app EXCEPT !.Tags = t.ensured]

\* Engine.Reconcile, lines 89-98: appSpec after ensureAppTags; t is its result
AppSpecAfterTags(app, ensureTags, t) ==
  IF ~ensureTags THEN app
  ELSE IF ~t.ok THEN [app EXCEPT !.TagsSet = FALSE]
  ELSE [app EXCEPT !.Tags = t.ensured]

\* Engine.Reconcile, lines 89-139: t is the result of ensureAppTags
TaggedAppStep(st, idx, app, refs, ensureTags, t, existing, tagging, manage, dry, failApp, base) ==
  ResolvedAppStep([st EXCEPT !.calls = t.calls, !.liveTags = t.remote], idx,
                  AppSpecAfterTags(app, ensureTags, t), refs,
                  resolveAccessApp(AppSpecAfterTags(app, ensureTags, t),
                                   st.knownApps, existing),
                  tagging, manage, dry, failApp, base)

\* Engine.Reconcile, lines 84-139: p is the result of ensurePolicies
PoliciesAppStep(st, idx, app, p, existing, tagging, manage, dry, failTags, failPost, failApp, base) ==
  IF ~p.ok
  THEN [st EXCEPT !.calls = p.calls, !.livePolicies = p.remote,
                  !.knownPolicies = p.known, !.outcome = "policy-aborted"]
  ELSE TaggedAppStep([st EXCEPT !.calls = p.calls, !.livePolicies = p.remote,
                                !.knownPolicies = p.known],
                     idx, app, p.refs, manage /\ app.TagsSet /\ Len(app.Tags) > 0,
                     IF manage /\ app.TagsSet /\ Len(app.Tags) > 0
                     THEN ensureAppTags(idx, app, st.liveTags, p.calls, failTags, failPost)
                     ELSE [seen |-> {}, ensured |-> app.Tags, ok |-> TRUE,
                           calls |-> p.calls, remote |-> st.liveTags],
                     existing, tagging, manage, dry, failApp, base)

\* the marker tag ensured whatever the management flag is
MarkerStep_NoManageGate(st, idx, manage, failMarker, failPost) ==
  [st EXCEPT
     !.calls = @ \o EnsureAccessTag(idx, managedTag, st.liveTags, failMarker,
                                    failPost),
     !.liveTags = IF failMarker THEN @ ELSE @ \cup {managedTag}]

\* Engine.Reconcile, lines 75-82: EnsureAccessTag of the marker tag
MarkerStep(st, idx, manage, failMarker, failPost) ==
  IF ~manage THEN st
  ELSE [st EXCEPT
          !.calls = @ \o EnsureAccessTag(idx, managedTag, st.liveTags, failMarker,
                                         failPost),
          !.liveTags = IF failMarker THEN @ ELSE @ \cup {managedTag}]

\* Engine.Reconcile, lines 74-140: the body of the app loop for the app at
\* position idx, from the state st. failMarker, failPolicies, failTags and
\* failApp tell which remote calls of the iteration fail, failPost whether
\* a failed EnsureAccessTag fails in its POST
MarkedAppStep(st, idx, app, existing, manage, dry, failMarker, failPolicies, failTags, failPost, failApp, policyBase, appBase) ==
  PoliciesAppStep(st, idx, app,
                  ensurePolicies(idx, app, st.knownPolicies, st.livePolicies, st.calls,
                                 manage, dry, failPolicies, policyBase),
                  existing, manage /\ ~failMarker, manage, dry, failTags, failPost,
                  failApp, appBase)

AppIteration(st, idx, app, existing, manage, dry, failMarker, failPolicies, failTags, failPost, failApp, policyBase, appBase) ==
  MarkedAppStep(MarkerStep(st, idx, manage, failMarker, failPost), idx, app, existing,
                manage, dry, failMarker, failPolicies, failTags, failPost, failApp,
                policyBase, appBase)

\* the state an iteration of the app loop leaves
AccessApply(st) ==
  /\ accCalls' = st.calls
  /\ accLiveApps' = st.liveApps
  /\ accLivePolicies' = st.livePolicies
  /\ accLiveTags' = st.liveTags
  /\ accKnownApps' = st.knownApps
  /\ accKnownPolicies' = st.knownPolicies
  /\ accDesiredIDs' = st.desiredIDs
  /\ accOutcome' = Append(accOutcome, st.outcome)

\* Engine.Reconcile: one iteration of the app loop
AccessApp ==
  /\ accPC = "apps"
  /\ \E failMarker, failPost, failApp \in BOOLEAN,
        failPolicies \in SUBSET (1..Len(accApps[accIdx].Policies)),
        failTags \in SUBSET (1..Len(accApps[accIdx].Tags)) :
       /\ accCancelAt # 0 =>
            /\ failMarker /\ ~failPost /\ failApp
            /\ failPolicies = 1..Len(accApps[accIdx].Policies)
            /\ failTags = 1..Len(accApps[accIdx].Tags)
       /\ AccessApply(
         AppIteration([calls |-> accCalls, liveApps |-> accLiveApps,
                       livePolicies |-> accLivePolicies, liveTags |-> accLiveTags,
                       knownApps |-> accKnownApps, knownPolicies |-> accKnownPolicies,
                       desiredIDs |-> accDesiredIDs, outcome |-> ""],
                      accIdx, accApps[accIdx], accExisting, manageAccess, dryRun,
                      failMarker, failPolicies, failTags, failPost, failApp,
                      PolicyBase, AppBase))
  /\ AccessGoto(AfterApp(accIdx, accExisting))
  /\ UNCHANGED <<accExisting, accErr>>
  /\ AccessFrame

\* Engine.deleteOrphanedApps: one iteration of the loop over the listed apps
AccessOrphanStep ==
  /\ accPC = "orphans"
  /\ LET app == accExisting[accIdx]
     IN IF OrphanDecision(app, accDesiredIDs, manageAccess, dryRun) = "delete"
        THEN \E ok \in IF accCancelAt = 0 THEN BOOLEAN ELSE {FALSE} :
               /\ accCalls' = Append(accCalls, AccCall("DeleteAccessApp", 0, app.ID,
                                                       app.Name, <<>>, app.Tags, ok))
               /\ accLiveApps' = IF ok
                                 THEN SelectSeq(accLiveApps, LAMBDA a : a.ID # app.ID)
                                 ELSE accLiveApps
        ELSE UNCHANGED <<accCalls, accLiveApps>>
  /\ AccessGoto(AfterOrphan(accIdx))
  /\ UNCHANGED <<accLivePolicies, accLiveTags, accExisting, accKnownApps,
                 accKnownPolicies, accDesiredIDs, accOutcome, accErr>>
  /\ AccessFrame

\* the controller starts the next pass with the same desired apps; the call
\* log is that of the current pass, of the pass before only its outcome is
\* kept
AccessNextPass ==
  /\ accPC = "done"
  /\ accPass < MaxAccessPasses
  /\ accCancelAt = 0
  /\ accPass' = accPass + 1
  /\ accPrev' = IF ~accErr /\ \A i \in 1..Len(accCalls) : accCalls[i].ok
                THEN "clean" ELSE "failed"
  /\ accPC' = "start"
  /\ accIdx' = 0
  /\ accExisting' = <<>>
  /\ accKnownApps' = <<>>
  /\ accKnownPolicies' = <<>>
  /\ accDesiredIDs' = {}
  /\ accOutcome' = <<>>
  /\ accCalls' = <<>>
  /\ accErr' = FALSE
  /\ UNCHANGED <<routes, dryRun, manageAccess, accApps, accLiveApps, accLivePolicies,
                 accLiveTags, accCancelAt, ingVars, dnsVars, ctlVars, mrgVars, prsVars, cfgVars>>

\* ctx is cancelled while Reconcile runs: every remote call from the next
\* one on returns the context's error
AccessCancel ==
  /\ accPC \in {"start", "apps", "orphans"}
  /\ accCancelAt = 0
  /\ accCancelAt' = Len(accCalls) + 1
  /\ UNCHANGED <<routes, dryRun, manageAccess, accApps, accLiveApps, accLivePolicies,
                 accLiveTags, accPC, accIdx, accExisting, accKnownApps,
                 accKnownPolicies, accDesiredIDs, accOutcome, accCalls, accErr,
                 accPass, accPrev, ingVars, dnsVars, ctlVars, mrgVars, prsVars, cfgVars>>

NextAccess ==
  AccessStart \/ AccessApp \/ AccessOrphanStep \/ AccessNextPass \/ AccessCancel

SpecAccess == InitAccess /\ [][NextAccess]_vars

\* ------------------------------------------------ the tags of the apps
\* desired apps that differ in their tags label: an empty label, a label
\* with two tags, and no label
TagAppUniverse ==
  { AccessAppSpec(NoID, n_app, d_app, <<PRefByName>>, <<>>, TRUE),
    AccessAppSpec(NoID, n_web, d_web, <<PRefByID>>, <<t_team, t_ops>>, TRUE),
    AccessAppSpec(NoID, n_web, d_web, <<PRefByID>>, <<>>, FALSE) }

TagAppLists == {as \in SeqsUpTo(TagAppUniverse, MaxApps) : SortedAppKeys(as)}

\* Engine.Reconcile started with desired apps that differ in their tags
InitAccessTags ==
  /\ routes = <<>>
  /\ dryRun \in BOOLEAN
  /\ manageAccess \in BOOLEAN
  /\ accApps \in TagAppLists
  /\ accLiveApps \in LiveAppLists
  /\ accLivePolicies = <<LivePolicyUniverse[1]>>
  /\ accLiveTags = TagsOf(accLiveApps)
  /\ accPC = "start"
  /\ accIdx = 0
  /\ accExisting = <<>>
  /\ accKnownApps = <<>>
  /\ accKnownPolicies = <<>>
  /\ accDesiredIDs = {}
  /\ accOutcome = <<>>
  /\ accCalls = <<>>
  /\ accErr = FALSE
  /\ accPass = 1
  /\ accPrev = "none"
  /\ accCancelAt = 0
  /\ IngressIdle
  /\ DNSIdle
  /\ ControllerIdle
  /\ MergeIdle
  /\ ParserIdle
  /\ ConfigIdle

SpecAccessTags == InitAccessTags /\ [][NextAccess]_vars

\* ------------------------------------------- apps that share policies
\* desired apps with several policies each, one policy named by both
SharedAppUniverse ==
  { AccessAppSpec(NoID, n_app, d_app, <<PManagedByName, PManagedByID>>, <<>>, FALSE),
    AccessAppSpec(NoID, n_web, d_web, <<PManagedByID, PManagedByName>>, <<>>, FALSE),
    AccessAppSpec(NoID, n_web, d_web, <<PManagedByID>>, <<>>, FALSE) }

SharedAppLists == {as \in SeqsUpTo(SharedAppUniverse, MaxApps) : SortedAppKeys(as)}

\* Engine.Reconcile started with desired apps that share policies
InitAccessShared ==
  /\ routes = <<>>
  /\ dryRun \in BOOLEAN
  /\ manageAccess \in BOOLEAN
  /\ accApps \in SharedAppLists
  /\ accLiveApps \in {<<>>, LiveAppList({1, 4})}
  /\ accLivePolicies \in {<<LivePolicyUniverse[3], LivePolicyUniverse[4]>>,
                          <<LivePolicyUniverse[1], LivePolicyUniverse[3]>>}
  /\ accLiveTags = TagsOf(accLiveApps)
  /\ accPC = "start"
  /\ accIdx = 0
  /\ accExisting = <<>>
  /\ accKnownApps = <<>>
  /\ accKnownPolicies = <<>>
  /\ accDesiredIDs = {}
  /\ accOutcome = <<>>
  /\ accCalls = <<>>
  /\ accErr = FALSE
  /\ accPass = 1
  /\ accPrev = "none"
  /\ accCancelAt = 0
  /\ IngressIdle
  /\ DNSIdle
  /\ ControllerIdle
  /\ MergeIdle
  /\ ParserIdle
  /\ ConfigIdle

SpecAccessShared == InitAccessShared /\ [][NextAccess]_vars

\* ======================================================================
\* Properties of the Access reconciler
\* ======================================================================
\* positions in the call log of the calls of the given operations
AccessCallsOf(ops) == {i \in 1..Len(accCalls) : accCalls[i].op \in ops}

\* the app's tag list contains the ownership-marker tag
HasMarker(app) == \E i \in 1..Len(app.Tags) : app.Tags[i] = managedTag

\* positions in the listing of the apps with the identifier
ListedByID(id) == {k \in 1..Len(accExisting) : accExisting[k].ID = id}

\* C1: every DeleteAccessApp call of the orphan cleanup names a listed live
\* app whose tag list contains the ownership-marker tag; an app without the
\* marker is never deleted, whatever the desired list and the flags are.
C1_OrphanCleanupSparesUntagged ==
  \A i \in AccessCallsOf({"DeleteAccessApp"}) :
    /\ ListedByID(accCalls[i].id) # {}
    /\ \A k \in ListedByID(accCalls[i].id) : HasMarker(accExisting[k])

\* a finished pass that deleted an owned orphan and left alone an app that
\* is not desired and carries no marker
C1_Witness ==
  /\ accPC = "done"
  /\ \E i \in AccessCallsOf({"DeleteAccessApp"}) : accCalls[i].ok
  /\ \E k \in 1..Len(accExisting) :
       /\ ~HasMarker(accExisting[k])
       /\ accExisting[k].ID \notin accDesiredIDs
       /\ \E j \in 1..Len(accLiveApps) : accLiveApps[j] = accExisting[k]

\* the listed app is the live counterpart of the desired app: the app with
\* the explicit identifier, or else an app with the same name and domain
IsCounterpart(spec, app) ==
  IF spec.ID # NoID THEN app.ID = spec.ID
  ELSE accessAppKey(app.Name, app.Domain) = accessAppKey(spec.Name, spec.Domain)

\* C2: when policy resolution aborts a desired app, its live counterpart is
\* left untouched in that pass: no UpdateAccessApp and no DeleteAccessApp
\* call that names the counterpart takes effect, whatever its tags are.
C2_AsStated ==
  \A idx \in 1..Len(accOutcome) :
    accOutcome[idx] = "policy-aborted" =>
      \A k \in 1..Len(accExisting) :
        IsCounterpart(accApps[idx], accExisting[k]) =>
          \A i \in AccessCallsOf({"UpdateAccessApp", "DeleteAccessApp"}) :
            accCalls[i].ok => accCalls[i].id # accExisting[k].ID

\* the desired app has no explicit identifier and two or more listed apps
\* share its name and domain, compared without case
AmbiguousApp(spec) ==
  /\ spec.ID = NoID
  /\ Len(appByKey(accExisting, accessAppKey(spec.Name, spec.Domain))) >= 2

\* C3: for a desired app without explicit identifier whose name and domain
\* two or more live apps share, no CreateAccessApp and no UpdateAccessApp
\* call is issued.
C3_AsStated ==
  \A idx \in 1..Len(accOutcome) :
    AmbiguousApp(accApps[idx]) =>
      \A i \in AccessCallsOf({"CreateAccessApp", "UpdateAccessApp"}) :
        accCalls[i].idx # idx

\* the desired app carries an explicit identifier that no listed app has
MissingExplicitID(spec) ==
  /\ spec.ID # NoID
  /\ ListedByID(spec.ID) = {}

\* C4: for a desired app whose explicit identifier no live app has, no
\* CreateAccessApp and no UpdateAccessApp call is issued.
C4_AsStated ==
  \A idx \in 1..Len(accOutcome) :
    MissingExplicitID(accApps[idx]) =>
      \A i \in AccessCallsOf({"UpdateAccessApp", "CreateAccessApp"}) :
        accCalls[i].idx # idx

\* the calls that change a policy or an app
AccessMutations ==
  {"CreateAccessPolicy", "UpdateAccessPolicy", "CreateAccessApp", "UpdateAccessApp",
   "DeleteAccessApp"}

\* C13: with access management enabled and dry-run off, a pass that follows
\* a pass without failed calls issues no policy create or update and no app
\* create, update or delete.
C13_AsStated ==
  (manageAccess /\ ~dryRun /\ accPass >= 2 /\ accPrev = "clean")
    => AccessCallsOf(AccessMutations) = {}

\* C16 as stated: in a dry-run pass, with access management on or off, no
\* policy or app is created, updated or deleted, and no tag is created by
\* an EnsureAccessTag call, for the marker tag or for a tag of the app.
C16_AsStated ==
  dryRun =>
    /\ AccessCallsOf(AccessMutations) = {}
    /\ \A i \in AccessCallsOf({"CreateAccessTag"}) : ~accCalls[i].ok

\* the calls the engine makes that can change the remote
AccessWrites == AccessMutations \cup {"EnsureAccessTag", "CreateAccessTag"}

\* C17: with access management disabled no CreateAccessApp, UpdateAccessApp,
\* DeleteAccessApp, CreateAccessPolicy, UpdateAccessPolicy or
\* EnsureAccessTag call is made.
C17_NoWriteWhenUnmanaged ==
  ~manageAccess => AccessCallsOf(AccessWrites) = {}

\* a finished pass without management and without dry-run that read both
\* listings, skipped a create or an update it had decided on, and left an
\* owned app that is not desired
C17_Witness ==
  /\ ~manageAccess /\ ~dryRun
  /\ accPC = "done"
  /\ AccessCallsOf({"ListAccessApps", "ListAccessPolicies"}) # {}
  /\ \E k \in 1..Len(accOutcome) :
       accOutcome[k] \in {"create-skipped-unmanaged", "update-skipped-unmanaged"}
  /\ \E k \in 1..Len(accExisting) :
       /\ HasMarker(accExisting[k])
       /\ accExisting[k].ID \notin accDesiredIDs

\* scenario C at the end of its pass: one desired app whose only policy is
\* managed and named, no live app and no live policy at the start,
\* management on, dry-run off, every remote call succeeded
ScenarioC ==
  /\ Len(accApps) = 1
  /\ Len(accApps[1].Policies) = 1
  /\ accApps[1].Policies[1].Managed
  /\ accApps[1].Policies[1].ID = NoID
  /\ manageAccess /\ ~dryRun
  /\ accPass = 1 /\ accPC = "done"
  /\ accExisting = <<>>
  /\ \A k \in 1..Len(accLivePolicies) : accLivePolicies[k].ID > PolicyBase
  /\ ~accErr
  /\ \A i \in 1..Len(accCalls) : accCalls[i].ok

\* C18: in scenario C the pass issues exactly one CreateAccessPolicy and
\* exactly one CreateAccessApp; the app is created with the identifier of
\* the new policy at precedence 1 as its only policy and with the
\* ownership-marker tag among its tags.
C18_ScenarioC ==
  ScenarioC =>
    /\ Cardinality(AccessCallsOf({"CreateAccessPolicy"})) = 1
    /\ Cardinality(AccessCallsOf({"CreateAccessApp"})) = 1
    /\ AccessCallsOf({"UpdateAccessPolicy", "UpdateAccessApp", "DeleteAccessApp"}) = {}
    /\ \A i \in AccessCallsOf({"CreateAccessApp"}) :
         \A j \in AccessCallsOf({"CreateAccessPolicy"}) :
           /\ j < i
           /\ accCalls[j].id # NoID
           /\ accCalls[j].name = accApps[1].Policies[1].Name
           /\ accCalls[i].name = accApps[1].Name
           /\ accCalls[i].policies = <<AccessPolicyRef(accCalls[j].id, 1)>>
           /\ \E t \in 1..Len(accCalls[i].tags) : accCalls[i].tags[t] = managedTag

\* scenario C finished: the remote holds the created policy and the
\* created app, which refers to it and carries the marker tag
C18_Witness ==
  /\ ScenarioC
  /\ Len(accLivePolicies) = 1
  /\ Len(accLiveApps) = 1
  /\ accLiveApps[1].Name = n_app
  /\ accLiveApps[1].Policies = <<AccessPolicyRef(accLivePolicies[1].ID, 1)>>
  /\ HasMarker(accLiveApps[1])
  /\ accOutcome = <<"created">>

\* the listed apps that carry the marker and were not resolved in the pass
OrphansOfPass ==
  {k \in 1..Len(accExisting) :
     HasMarker(accExisting[k]) /\ accExisting[k].ID \notin accDesiredIDs}

\* C19: Reconcile returns an error only when a listing failed; otherwise,
\* whatever app was aborted and whatever create or update failed, the pass
\* ends with every desired app processed and, with management on and
\* dry-run off, with a DeleteAccessApp call for every owned orphan.
C19_AppsIndependent ==
  /\ accErr =>
       \E i \in AccessCallsOf({"ListAccessApps", "ListAccessPolicies"}) : ~accCalls[i].ok
  /\ (accPC = "done" /\ ~accErr) =>
       /\ Len(accOutcome) = Len(accApps)
       /\ (manageAccess /\ ~dryRun) =>
            \A k \in OrphansOfPass :
              \E i \in AccessCallsOf({"DeleteAccessApp"}) :
                accCalls[i].id = accExisting[k].ID

\* a finished pass of two desired apps: the first was aborted or its write
\* failed, the second was created or updated, an orphan was deleted, and
\* no error is returned
C19_Witness ==
  /\ accPC = "done" /\ ~accErr
  /\ Len(accApps) = 2
  /\ Len(accOutcome) = 2
  /\ accOutcome[1] \in {"policy-aborted", "create-failed", "update-failed"}
  /\ accOutcome[2] \in {"created", "updated"}
  /\ \E i \in AccessCallsOf({"DeleteAccessApp"}) : accCalls[i].ok

\* C23 as stated, for the Access reconciler: when ctx is cancelled during a
\* pass and a remote call is made with it, that call is the last call of
\* the pass and Reconcile returns an error.
C23_AsStated ==
  (accPC = "done" /\ accCancelAt # 0 /\ Len(accCalls) >= accCancelAt)
    => (accErr /\ Len(accCalls) = accCancelAt)

\* positions in the call log of the app writes of the desired app at idx
AppWritesOf(idx) ==
  {i \in AccessCallsOf({"CreateAccessApp", "UpdateAccessApp"}) : accCalls[i].idx = idx}

\* the call targets the policy the specification names: by its identifier,
\* or else by its name regardless of case
TargetsPolicy(call, policy) ==
  IF policy.ID # NoID THEN call.id = policy.ID
  ELSE ToLower(call.name) = ToLower(policy.Name)

\* the positions of the reference-only policies of the desired app
ReferenceOnly(app) == {k \in 1..Len(app.Policies) : ~app.Policies[k].Managed}

\* C26: a reference-only policy is attached by identity only. No
\* CreateAccessPolicy or UpdateAccessPolicy call of its app targets it,
\* whatever the live policy looks like; with an explicit identifier, also
\* one no live policy has, every app write of its app carries a reference
\* to that identifier, and an app with only such policies is never aborted
\* by policy resolution.
C26_ReferenceOnlyByIdentity ==
  \A idx \in 1..Len(accOutcome) : \A k \in ReferenceOnly(accApps[idx]) :
    /\ \A i \in AccessCallsOf({"CreateAccessPolicy", "UpdateAccessPolicy"}) :
         accCalls[i].idx = idx => ~TargetsPolicy(accCalls[i], accApps[idx].Policies[k])
    /\ accApps[idx].Policies[k].ID # NoID =>
         /\ \A i \in AppWritesOf(idx) :
              \E j \in 1..Len(accCalls[i].policies) :
                accCalls[i].policies[j].ID = accApps[idx].Policies[k].ID
         /\ (\A m \in 1..Len(accApps[idx].Policies) :
               ~accApps[idx].Policies[m].Managed /\ accApps[idx].Policies[m].ID # NoID)
              => accOutcome[idx] # "policy-aborted"

\* a finished pass that wrote two apps: one whose reference-only policy was
\* resolved by name to a live policy with another action, one whose
\* reference-only policy names an identifier no live policy has
C26_Witness ==
  /\ accPC = "done" /\ Len(accOutcome) = 2
  /\ \E idx \in 1..2 :
       /\ accApps[idx].Policies = <<PRefByName>>
       /\ \E i \in AppWritesOf(idx) :
            /\ accCalls[i].ok
            /\ \E q \in 1..Len(accKnownPolicies) :
                 /\ accKnownPolicies[q].ID = accCalls[i].policies[1].ID
                 /\ policyNeedsUpdate([PRefByName EXCEPT !.Managed = TRUE],
                                      accKnownPolicies[q])
  /\ \E idx \in 1..2 :
       /\ accApps[idx].Policies = <<PRefByID>>
       /\ ~HasID(accKnownPolicies, PRefByID.ID)
       /\ \E i \in AppWritesOf(idx) :
            accCalls[i].ok /\ accCalls[i].policies = <<AccessPolicyRef(PRefByID.ID, 1)>>

\* policy resolution cannot resolve the policy among the known policies: a
\* managed policy whose explicit identifier is unknown, a reference-only
\* policy whose name is unknown, or a name more than one known policy has
Unresolvable(policy, known) ==
  IF policy.ID # NoID THEN policy.Managed /\ ~HasID(known, policy.ID)
  ELSE \/ Len(policyByName(known, policy.Name)) > 1
       \/ (~policy.Managed /\ Len(policyByName(known, policy.Name)) = 0)

\* C27: a desired app with a policy that cannot be resolved (a managed
\* policy's explicit identifier not among the live policies, a
\* reference-only name no live policy has, a name more than one live policy
\* has regardless of case) is aborted by policy resolution: no
\* CreateAccessApp and no UpdateAccessApp call is issued for it in the pass.
C27_UnresolvablePolicyAbortsApp ==
  \A idx \in 1..Len(accOutcome) :
    (\E k \in 1..Len(accApps[idx].Policies) :
       Unresolvable(accApps[idx].Policies[k], accKnownPolicies))
      => (accOutcome[idx] = "policy-aborted" /\ AppWritesOf(idx) = {})

\* a finished pass with management on and dry-run off that aborted two
\* apps and wrote neither: one whose policy name two live policies have,
\* one whose managed policy names an identifier no live policy has; the run
\* also reaches passes that abort an app for an unknown reference-only name
C27_Witness ==
  /\ accPC = "done" /\ manageAccess /\ ~dryRun /\ ~accErr
  /\ Len(accOutcome) = 2
  /\ \E idx \in 1..2 :
       /\ accApps[idx].Policies[1].ID = NoID
       /\ Len(policyByName(accKnownPolicies, accApps[idx].Policies[1].Name)) > 1
       /\ accOutcome[idx] = "policy-aborted"
  /\ \E idx \in 1..2 :
       /\ accApps[idx].Policies[1] = PManagedByID
       /\ ~HasID(accKnownPolicies, PManagedByID.ID)
       /\ accOutcome[idx] = "policy-aborted"
  /\ AccessCallsOf({"CreateAccessApp", "UpdateAccessApp"}) = {}

\* the tags of a list, as a set
TagSet(tags) == {tags[i] : i \in 1..Len(tags)}

\* the marker tag was ensured for the desired app at idx
MarkerEnsured(idx) ==
  \E i \in AccessCallsOf({"EnsureAccessTag"}) :
    accCalls[i].idx = idx /\ accCalls[i].name = managedTag /\ accCalls[i].ok

\* ensuring a tag of the tags label of the desired app at idx failed
TagEnsureFailed(idx) ==
  \E i \in AccessCallsOf({"EnsureAccessTag"}) :
    accCalls[i].idx = idx /\ accCalls[i].name # managedTag /\ ~accCalls[i].ok

\* the tags the listing gave for the app an app write is about: those of
\* the updated app, none for a created app
ExistingTags(call) ==
  IF call.op = "UpdateAccessApp" /\ ListedByID(call.id) # {}
  THEN accExisting[CHOOSE k \in ListedByID(call.id) : TRUE].Tags
  ELSE <<>>

\* the marker tag, when the pass adds it to the app at idx
AddedMarker(idx) == IF manageAccess /\ MarkerEnsured(idx) THEN {managedTag} ELSE {}

\* the tags sent are the base tags plus the marker tag, once, exactly when
\* it was ensured
SentTagsAre(call, idx, base) ==
  /\ TagSet(call.tags) = TagSet(base) \cup AddedMarker(idx)
  /\ AddedMarker(idx) # {} =>
       Cardinality({t \in 1..Len(call.tags) : call.tags[t] = managedTag}) = 1

\* C28 as stated: every app write sends the explicit tag list when the
\* specification has a tags label, else the tags of the live app (none for
\* a create), plus the marker tag, once, exactly when management is on and
\* the marker tag was ensured; without a tags label no live tag is lost.
C28_AsStated ==
  \A idx \in 1..Len(accOutcome) : \A i \in AppWritesOf(idx) :
    /\ SentTagsAre(accCalls[i], idx,
                   IF accApps[idx].TagsSet THEN accApps[idx].Tags
                   ELSE ExistingTags(accCalls[i]))
    /\ ~accApps[idx].TagsSet =>
         TagSet(ExistingTags(accCalls[i])) \subseteq TagSet(accCalls[i].tags)

\* C28: every app write sends the explicit tag list when the
\* specification has a tags label and no tag of it failed to be ensured,
\* else the tags of the live app (none for a create), plus the marker tag,
\* once, exactly when management is on and the marker tag was ensured;
\* without a tags label no live tag is lost.
C28_TagsSent ==
  \A idx \in 1..Len(accOutcome) : \A i \in AppWritesOf(idx) :
    /\ SentTagsAre(accCalls[i], idx,
                   IF accApps[idx].TagsSet /\ ~TagEnsureFailed(idx)
                   THEN accApps[idx].Tags
                   ELSE ExistingTags(accCalls[i]))
    /\ ~accApps[idx].TagsSet =>
         TagSet(ExistingTags(accCalls[i])) \subseteq TagSet(accCalls[i].tags)

\* a finished pass that updated two apps: for the app with the empty tags
\* label a live app that had a tag, now written with no tag because the
\* marker tag could not be ensured, for the app without tags label a live
\* app written with its tag and the marker tag
C28_Witness ==
  /\ accPC = "done" /\ Len(accOutcome) = 2
  /\ \E idx \in 1..2 : \E i \in AppWritesOf(idx) :
       /\ accApps[idx].TagsSet /\ accApps[idx].Tags = <<>>
       /\ accCalls[i].ok /\ ~MarkerEnsured(idx)
       /\ ExistingTags(accCalls[i]) # <<>>
       /\ accCalls[i].tags = <<>>
  /\ \E idx \in 1..2 : \E i \in AppWritesOf(idx) :
       /\ ~accApps[idx].TagsSet
       /\ accCalls[i].ok /\ MarkerEnsured(idx)
       /\ ExistingTags(accCalls[i]) = <<t_team>>
       /\ accCalls[i].tags = <<t_team, managedTag>>

\* C29: when ensuring a tag of the tags label fails, every app write of
\* the app sends the tags of the live app (none for a create), plus the
\* marker tag when it was ensured: a tag of the label that was ensured is
\* sent only if the live app has it.
C29_FailedTagsKeepExisting ==
  \A idx \in 1..Len(accOutcome) :
    TagEnsureFailed(idx) =>
      \A i \in AppWritesOf(idx) :
        /\ TagSet(accCalls[i].tags) = TagSet(ExistingTags(accCalls[i])) \cup AddedMarker(idx)
        /\ \A t \in 1..Len(accApps[idx].Tags) :
             accApps[idx].Tags[t] \in TagSet(accCalls[i].tags)
               => accApps[idx].Tags[t] \in TagSet(ExistingTags(accCalls[i]))

\* an app with the tags label "team,ops" whose tag "ops" was ensured and
\* whose tag "team" was not, updated with the tag of the live app and the
\* marker tag
C29_Witness ==
  \E idx \in 1..Len(accOutcome) : \E i \in AppWritesOf(idx) :
    /\ accApps[idx].Tags = <<t_team, t_ops>>
    /\ \E j \in AccessCallsOf({"EnsureAccessTag"}) :
         accCalls[j].idx = idx /\ accCalls[j].name = t_ops /\ accCalls[j].ok
    /\ \E j \in AccessCallsOf({"EnsureAccessTag"}) :
         accCalls[j].idx = idx /\ accCalls[j].name = t_team /\ ~accCalls[j].ok
    /\ accCalls[i].op = "UpdateAccessApp" /\ accCalls[i].ok
    /\ accCalls[i].tags = <<t_team, managedTag>>

\* the creation of the policy is skipped: a managed policy without
\* identifier whose name no known policy has, in a pass with management off
\* or dry-run on
CreationSkipped(policy, known) ==
  /\ policy.Managed /\ policy.ID = NoID
  /\ Len(policyByName(known, policy.Name)) = 0
  /\ (~manageAccess \/ dryRun)

\* C31 as stated: an app with a policy whose creation is skipped, and with
\* no policy that cannot be resolved, is not aborted by policy resolution,
\* also when the skipped policy is its only policy.
C31_AsStated ==
  \A idx \in 1..Len(accOutcome) :
    (/\ \E k \in 1..Len(accApps[idx].Policies) :
          CreationSkipped(accApps[idx].Policies[k], accKnownPolicies)
     /\ \A k \in 1..Len(accApps[idx].Policies) :
          ~Unresolvable(accApps[idx].Policies[k], accKnownPolicies))
      => accOutcome[idx] # "policy-aborted"

\* the reference is to the policy the entry names: to its identifier, or
\* else to a known policy of its name, regardless of case
RefersTo(ref, policy) ==
  IF policy.ID # NoID THEN ref.ID = policy.ID
  ELSE \E q \in 1..Len(accKnownPolicies) :
         /\ accKnownPolicies[q].ID = ref.ID
         /\ ToLower(accKnownPolicies[q].Name) = ToLower(policy.Name)

\* C34: the policy references of every app write are those of the policy
\* entries of the desired app, one for each entry and in the order of the
\* entries, the reference at position j carrying precedence j.
C34_ReferencesInOrder ==
  \A idx \in 1..Len(accOutcome) : \A i \in AppWritesOf(idx) :
    /\ Len(accCalls[i].policies) = Len(accApps[idx].Policies)
    /\ \A j \in 1..Len(accCalls[i].policies) :
         /\ accCalls[i].policies[j].Precedence = j
         /\ RefersTo(accCalls[i].policies[j], accApps[idx].Policies[j])

\* an app written with two references: first the policy "allow" created
\* in the pass, then the policy named by identifier
C34_Witness ==
  \E idx \in 1..Len(accOutcome) : \E i \in AppWritesOf(idx) :
    /\ accCalls[i].ok
    /\ accApps[idx].Policies = <<PManagedByName, PManagedByID>>
    /\ Len(accCalls[i].policies) = 2
    /\ accCalls[i].policies[1].ID > PolicyBase
    /\ accCalls[i].policies[2] = AccessPolicyRef(PManagedByID.ID, 2)
    /\ \E c \in AccessCallsOf({"CreateAccessPolicy"}) :
         c < i /\ accCalls[c].ok /\ accCalls[c].id = accCalls[i].policies[1].ID

\* C36 as the specification states it: within one pass no policy receives
\* more than one UpdateAccessPolicy call and no policy name more than one
\* CreateAccessPolicy call, however many desired apps refer to it.
C36_AsStated ==
  /\ \A i, j \in AccessCallsOf({"UpdateAccessPolicy"}) :
       accCalls[i].id = accCalls[j].id => i = j
  /\ \A i, j \in AccessCallsOf({"CreateAccessPolicy"}) :
       ToLower(accCalls[i].name) = ToLower(accCalls[j].name) => i = j

\* the ways an iteration ends once resolveAccessApp has found a live app
ResolvedOutcomes ==
  {"unchanged", "update-skipped-unmanaged", "update-skipped-dry-run",
   "update-failed", "updated"}

\* the desired apps processed so far for which resolveAccessApp found a
\* live app
ResolvedSpecs == {idx \in 1..Len(accOutcome) : accOutcome[idx] \in ResolvedOutcomes}

\* the identifier of the live app the desired app at idx resolved to
ResolvedTo(idx) == resolveAccessApp(accApps[idx], accKnownApps, accExisting).record.ID

\* C37: no DeleteAccessApp call of a pass names a live app that a desired
\* app of the pass resolved to, however the iteration of that app ended;
\* a delete is issued only with management on and dry-run off, and only
\* for a listed app that carries the marker tag.
C37_ResolvedAppsSpared ==
  \A i \in AccessCallsOf({"DeleteAccessApp"}) :
    /\ \A idx \in ResolvedSpecs : accCalls[i].id # ResolvedTo(idx)
    /\ manageAccess /\ ~dryRun
    /\ ListedByID(accCalls[i].id) # {}
    /\ \A k \in ListedByID(accCalls[i].id) : HasMarker(accExisting[k])

\* a finished pass that deleted an owned orphan and left live an owned app
\* whose update had failed
C37_Witness ==
  /\ accPC = "done"
  /\ \E i \in AccessCallsOf({"DeleteAccessApp"}) : accCalls[i].ok
  /\ \E idx \in ResolvedSpecs :
       /\ accOutcome[idx] = "update-failed"
       /\ \E k \in ListedByID(ResolvedTo(idx)) : HasMarker(accExisting[k])
       /\ \E j \in 1..Len(accLiveApps) : accLiveApps[j].ID = ResolvedTo(idx)

\* ======================================================================
\* The controller: Run and syncOnce
\* ======================================================================
\* The reconcilers are the three engines above; here each invocation is
\* its result only, an error or none.
InitController ==
  /\ routes = <<>>
  /\ dryRun = FALSE
  /\ ctlRunOnce \in BOOLEAN
  /\ ctlHasDNS \in BOOLEAN
  /\ ctlHasAccess \in BOOLEAN
  /\ ctlPC = "docker"
  /\ ctlTick = 1
  /\ ctlInvoked = <<>>
  /\ ctlResult = "none"
  /\ ctlLog = <<>>
  /\ ctlPrev = "none"
  /\ ctlReturned = 0
  /\ ctlTickPending = FALSE
  /\ ctlCancelled = FALSE
  /\ IngressIdle
  /\ DNSIdle
  /\ AccessIdle
  /\ MergeIdle
  /\ ParserIdle
  /\ ConfigIdle

ControllerFrame == UNCHANGED <<routes, dryRun, ctlRunOnce, ctlHasDNS, ctlHasAccess,
                             ctlTick, ctlPrev, ctlTickPending, ctlCancelled,
                             ingVars, dnsVars, accVars, mrgVars, prsVars, cfgVars>>

Invocation(engine, err) == [engine |-> engine, err |-> err]

\* syncOnce returning err (or nil) to Run
SyncReturn(err) ==
  /\ ctlPC' = "returned"
  /\ ctlResult' = IF err THEN "error" ELSE "nil"
  /\ ctlReturned' = ctlReturned + 1

\* syncOnce going on to the given position
SyncGoto(pc) ==
  /\ ctlPC' = pc
  /\ UNCHANGED <<ctlResult, ctlReturned>>

\* syncOnce: ListRunningContainers and ParseContainers
SyncListContainers ==
  /\ ctlPC = "docker"
  /\ \E err \in BOOLEAN :
       IF err THEN SyncReturn(TRUE) ELSE SyncGoto("ingress")
  /\ UNCHANGED <<ctlInvoked, ctlLog>>
  /\ ControllerFrame

\* syncOnce: controller.reconciler.Reconcile, whose error is returned
SyncIngress ==
  /\ ctlPC = "ingress"
  /\ \E err \in BOOLEAN :
       /\ ctlInvoked' = Append(ctlInvoked, Invocation("ingress", err))
       /\ IF err THEN SyncReturn(TRUE) ELSE SyncGoto("dns")
  /\ UNCHANGED ctlLog
  /\ ControllerFrame

\* syncOnce: controller.dnsEngine.Reconcile when there is a DNS engine; its
\* error is logged
SyncDNS ==
  /\ ctlPC = "dns"
  /\ IF ctlHasDNS
     THEN \E err \in BOOLEAN :
            /\ ctlInvoked' = Append(ctlInvoked, Invocation("dns", err))
            /\ ctlLog' = IF err THEN Append(ctlLog, "DNS sync failed") ELSE ctlLog
     ELSE UNCHANGED <<ctlInvoked, ctlLog>>
  /\ SyncGoto("access")
  /\ ControllerFrame

\* syncOnce: ParseAccessContainers and controller.accessEngine.Reconcile
\* when there is an Access engine; its error is returned
SyncAccess ==
  /\ ctlPC = "access"
  /\ IF ctlHasAccess
     THEN \E err \in BOOLEAN :
            /\ ctlInvoked' = Append(ctlInvoked, Invocation("access", err))
            /\ SyncReturn(err)
     ELSE /\ SyncReturn(FALSE)
          /\ UNCHANGED ctlInvoked
  /\ UNCHANGED ctlLog
  /\ ControllerFrame

\* Run returning when syncOnce returned an error
RunAfterSync_StopsOnError ==
  /\ ctlPC = "returned"
  /\ ctlLog' = IF ctlResult = "error"
               THEN Append(ctlLog, IF ctlTick = 1 THEN "initial sync failed"
                                   ELSE "sync failed")
               ELSE ctlLog
  /\ ctlPC' = IF (ctlTick = 1 /\ ctlRunOnce) \/ ctlResult = "error"
              THEN "stopped" ELSE "waiting"
  /\ UNCHANGED <<ctlInvoked, ctlResult, ctlReturned>>
  /\ ControllerFrame

\* Run: the error of syncOnce is logged; Run returns when runOnce is set,
\* else it waits for the ticker
RunAfterSync ==
  /\ ctlPC = "returned"
  /\ ctlLog' = IF ctlResult = "error"
               THEN Append(ctlLog, IF ctlTick = 1 THEN "initial sync failed"
                                   ELSE "sync failed")
               ELSE ctlLog
  /\ ctlPC' = IF ctlTick = 1 /\ ctlRunOnce THEN "stopped" ELSE "waiting"
  /\ UNCHANGED <<ctlInvoked, ctlResult, ctlReturned>>
  /\ ControllerFrame

\* the runtime's ticker: a tick is put in ticker.C, and dropped when one is
\* waiting there already; it fires whatever Run is doing
TickerFires ==
  /\ ctlPC \notin {"off", "stopped"}
  /\ ~ctlTickPending
  /\ ctlTickPending' = TRUE
  /\ UNCHANGED <<routes, dryRun, ctlRunOnce, ctlHasDNS, ctlHasAccess, ctlPC, ctlTick,
                 ctlInvoked, ctlResult, ctlLog, ctlPrev, ctlReturned, ctlCancelled,
                 ingVars, dnsVars, accVars, mrgVars, prsVars, cfgVars>>

\* the context is cancelled, whatever Run is doing
CtxCancel ==
  /\ ctlPC \notin {"off", "stopped"}
  /\ ~ctlCancelled
  /\ ctlCancelled' = TRUE
  /\ UNCHANGED <<routes, dryRun, ctlRunOnce, ctlHasDNS, ctlHasAccess, ctlPC, ctlTick,
                 ctlInvoked, ctlResult, ctlLog, ctlPrev, ctlReturned, ctlTickPending,
                 ingVars, dnsVars, accVars, mrgVars, prsVars, cfgVars>>

\* a pass started by a tick although the pass before has not returned
RunTick_WhilePassRuns ==
  /\ ctlPC \in {"docker", "ingress", "dns", "access", "waiting"}
  /\ ctlTickPending
  /\ ctlTick < MaxTicks
  /\ ctlTickPending' = FALSE
  /\ ctlTick' = ctlTick + 1
  /\ ctlPrev' = ctlResult
  /\ ctlPC' = "docker"
  /\ ctlInvoked' = <<>>
  /\ ctlResult' = "none"
  /\ ctlLog' = <<>>
  /\ UNCHANGED <<routes, dryRun, ctlRunOnce, ctlHasDNS, ctlHasAccess, ctlReturned,
                 ctlCancelled, ingVars, dnsVars, accVars, mrgVars, prsVars, cfgVars>>

\* Run: the select receives from ticker.C and the next pass starts
RunTick ==
  /\ ctlPC = "waiting"
  /\ ctlTickPending
  /\ ctlTick < MaxTicks
  /\ ctlTickPending' = FALSE
  /\ ctlTick' = ctlTick + 1
  /\ ctlPrev' = ctlResult
  /\ ctlPC' = "docker"
  /\ ctlInvoked' = <<>>
  /\ ctlResult' = "none"
  /\ ctlLog' = <<>>
  /\ UNCHANGED <<routes, dryRun, ctlRunOnce, ctlHasDNS, ctlHasAccess, ctlReturned,
                 ctlCancelled, ingVars, dnsVars, accVars, mrgVars, prsVars, cfgVars>>

\* a select that takes ctx.Done only when no tick waits in ticker.C
RunCancel_TickerFirst ==
  /\ ctlPC = "waiting"
  /\ ctlCancelled
  /\ ~ctlTickPending
  /\ ctlPC' = "stopped"
  /\ UNCHANGED <<ctlInvoked, ctlResult, ctlLog, ctlReturned>>
  /\ ControllerFrame

\* Run: the select receives from ctx.Done and Run returns
RunCancel ==
  /\ ctlPC = "waiting"
  /\ ctlCancelled
  /\ ctlPC' = "stopped"
  /\ UNCHANGED <<ctlInvoked, ctlResult, ctlLog, ctlReturned>>
  /\ ControllerFrame

NextController ==
  SyncListContainers \/ SyncIngress \/ SyncDNS \/ SyncAccess \/ RunAfterSync
    \/ TickerFires \/ CtxCancel \/ RunTick \/ RunCancel

SpecController == InitController /\ [][NextController]_vars

\* every call of syncOnce returns, Run goes on after it, the ticker keeps
\* firing and the select of Run receives what is ready
SpecControllerLive ==
  /\ InitController
  /\ [][NextController]_vars
  /\ WF_vars(SyncListContainers \/ SyncIngress \/ SyncDNS \/ SyncAccess)
  /\ WF_vars(RunAfterSync)
  /\ WF_vars(TickerFires)
  /\ WF_vars(RunTick \/ RunCancel)

\* Run: the select receives from ticker.C once MaxTicks passes have been
\* started; the pass that starts is counted as the MaxTicks-th again, so
\* that the loop of Run goes on without end
RunTickAgain ==
  /\ ctlPC = "waiting"
  /\ ctlTickPending
  /\ ctlTick = MaxTicks
  /\ ctlTickPending' = FALSE
  /\ ctlReturned' = ctlReturned - 1
  /\ ctlPrev' = ctlResult
  /\ ctlPC' = "docker"
  /\ ctlInvoked' = <<>>
  /\ ctlResult' = "none"
  /\ ctlLog' = <<>>
  /\ UNCHANGED <<routes, dryRun, ctlRunOnce, ctlHasDNS, ctlHasAccess, ctlTick,
                 ctlCancelled, ingVars, dnsVars, accVars, mrgVars, prsVars, cfgVars>>

NextRun == NextController \/ RunTickAgain

\* Run with a loop that has no last pass: every call of syncOnce returns,
\* Run goes on after it, the ticker keeps firing, and the select of Run,
\* which picks at random among the cases that are ready, does not pass
\* over ctx.Done for ever
SpecRun ==
  /\ InitController
  /\ [][NextRun]_vars
  /\ WF_vars(SyncListContainers \/ SyncIngress \/ SyncDNS \/ SyncAccess)
  /\ WF_vars(RunAfterSync)
  /\ WF_vars(TickerFires)
  /\ SF_vars(RunCancel)

\* ======================================================================
\* Properties of the controller
\* ======================================================================
\* the reconciler was invoked in the current pass
Invoked(engine) == \E i \in 1..Len(ctlInvoked) : ctlInvoked[i].engine = engine

\* the reconciler was invoked in the current pass and returned an error
Failed(engine) ==
  \E i \in 1..Len(ctlInvoked) : ctlInvoked[i].engine = engine /\ ctlInvoked[i].err

\* the current pass is over
PassOver == ctlPC \in {"returned", "waiting", "stopped"}

\* C20 as stated: in a pass in which the ingress reconciler returned an
\* error the DNS reconciler and the Access reconciler, where configured,
\* were still invoked, and in a pass in which the DNS reconciler returned an
\* error the Access reconciler, where configured, was still invoked.
C20_AsStated ==
  PassOver =>
    /\ Failed("ingress") => /\ (ctlHasDNS => Invoked("dns"))
                            /\ (ctlHasAccess => Invoked("access"))
    /\ Failed("dns") => (ctlHasAccess => Invoked("access"))

\* the place of a reconciler in the order of syncOnce
EngineRank(engine) ==
  CASE engine = "ingress" -> 1 [] engine = "dns" -> 2 [] engine = "access" -> 3

\* syncOnce is running
PassInFlight == ctlPC \in {"docker", "ingress", "dns", "access"}

\* C21: the reconcilers invoked in a pass were invoked in the order
\* ingress, DNS, access, each at most once, and a pass starts only after
\* the pass before has returned: the passes started are the passes
\* returned, plus the one in flight, also with a tick waiting.
C21_OnePassInFlight ==
  /\ \A i, j \in 1..Len(ctlInvoked) :
       i < j => EngineRank(ctlInvoked[i].engine) < EngineRank(ctlInvoked[j].engine)
  /\ ctlPC # "off" =>
       ctlTick = ctlReturned + (IF PassInFlight THEN 1 ELSE 0)

\* the ticker fired while the second pass was running: its ingress and
\* DNS reconcilers have returned, the Access step comes next
C21_Witness ==
  /\ ctlTick = 2
  /\ ctlPC = "access"
  /\ ctlTickPending
  /\ Len(ctlInvoked) = 2
  /\ ctlInvoked[1].engine = "ingress"
  /\ ctlInvoked[2].engine = "dns"

\* C22: in polling mode the error of a pass is logged by Run, and after a
\* pass that returned an error the next pass starts unless the context is
\* cancelled.
C22_FailedPassIsFollowed ==
  /\ [](ctlPC \in {"waiting", "stopped"} /\ ctlResult = "error"
          => \E i \in 1..Len(ctlLog) :
               ctlLog[i] \in {"initial sync failed", "sync failed"})
  /\ \A t \in 1..(MaxTicks - 1) :
       (ctlTick = t /\ ctlPC = "returned" /\ ctlResult = "error" /\ ~ctlRunOnce)
         ~> (ctlCancelled \/ (ctlTick = t + 1 /\ ctlPC = "docker"))

\* a third pass is running after two passes that returned an error, the
\* context not being cancelled
C22_Witness ==
  /\ ~ctlRunOnce /\ ~ctlCancelled
  /\ ctlTick = 3
  /\ ctlPrev = "error"
  /\ ctlPC = "ingress"

\* Run has returned
RunReturned == ctlPC = "stopped"

\* C40: in run-once mode Run returns, by the return of the runOnce test,
\* after exactly one call of syncOnce whatever it returned; in polling
\* mode Run returns only by the ctx.Done case of the select, so never
\* while the context is live, and once the context is cancelled Run
\* eventually returns.
C40_RunTerminates ==
  /\ [](RunReturned /\ ctlRunOnce => ctlTick = 1 /\ ctlReturned = 1)
  /\ [](RunReturned /\ ~ctlRunOnce => ctlCancelled)
  /\ [][(RunReturned' /\ ~RunReturned) =>
          IF ctlRunOnce THEN ctlPC = "returned" /\ ctlTick = 1
          ELSE ctlPC = "waiting" /\ ctlCancelled]_vars
  /\ (ctlRunOnce ~> RunReturned)
  /\ ((~ctlRunOnce /\ ctlCancelled) ~> RunReturned)

\* Run has returned in polling mode after more passes than the bound
\* counts, the last of which failed, the context having been cancelled
\* while a tick was waiting
C40_Witness ==
  /\ RunReturned
  /\ ~ctlRunOnce /\ ctlCancelled
  /\ ctlTick = MaxTicks /\ ctlReturned = MaxTicks
  /\ ctlResult = "error"
  /\ ctlTickPending

\* ======================================================================
\* mergeManagedOriginRequest on its own
\* ======================================================================
\* the values the keys of an existing object may have
OsnValues == {Absent, JStr("origin.internal"), JStr("other.internal"), JNum(<<1>>)}
NtvValues == {Absent, JBool(TRUE), JBool(FALSE), JStr("true")}
TimeoutValues ==
  {Absent, JNum(<<3, 0>>), JNum(<<9, 0, 0, 7, 1, 9, 9, 2, 5, 4, 7, 4, 0, 9, 9, 3>>)}

ObjectFields ==
  {f \in [OriginKeys -> OsnValues \cup NtvValues \cup TimeoutValues] :
     /\ f["originServerName"] \in OsnValues
     /\ f["noTLSVerify"] \in NtvValues
     /\ f["connectTimeout"] \in TimeoutValues}

\* the existing values: none, rejected bytes, null, and objects whose bytes
\* are or are not those json.Marshal writes
MergeExistingUniverse ==
  {NilRaw, InvalidRaw, NullRaw}
    \cup {ObjRaw(f, c) : f \in ObjectFields, c \in {FALSE}}
    \cup {ObjRaw(f, TRUE) : f \in {g \in ObjectFields : Marshalled(g) = g}}

MergeRouteUniverse ==
  {RouteSpec(h_a, Empty, "http://a:80", osn, ntv) :
     osn \in {None, Some("origin.internal"), Some("other.internal")},
     ntv \in {None, Some("true"), Some("false")}}

InitMerge ==
  /\ routes = <<>>
  /\ dryRun = FALSE
  /\ mrgPC = "input"
  /\ mrgExisting \in MergeExistingUniverse
  /\ mrgRoute \in MergeRouteUniverse
  /\ mrgFirst = NilRaw
  /\ mrgSecond = NilRaw
  /\ IngressIdle
  /\ DNSIdle
  /\ AccessIdle
  /\ ControllerIdle
  /\ ParserIdle
  /\ ConfigIdle

\* buildDesiredIngress: the merge for a desired route with a live rule
MergeApply ==
  /\ mrgPC = "input"
  /\ mrgFirst' = mergeManagedOriginRequest(mrgExisting, mrgRoute)
  /\ mrgPC' = "merged"
  /\ UNCHANGED <<routes, dryRun, mrgExisting, mrgRoute, mrgSecond, ingVars, dnsVars,
                 accVars, ctlVars, prsVars, cfgVars>>

\* the next pass, the route's labels for the managed fields removed: the
\* merge of what the pass before wrote
MergeClear ==
  /\ mrgPC = "merged"
  /\ mrgFirst.kind # "panic"
  /\ mrgSecond' = mergeManagedOriginRequest(
                    mrgFirst, [mrgRoute EXCEPT !.OriginServerName = None,
                                               !.NoTLSVerify = None])
  /\ mrgPC' = "cleared"
  /\ UNCHANGED <<routes, dryRun, mrgExisting, mrgRoute, mrgFirst, ingVars, dnsVars,
                 accVars, ctlVars, prsVars, cfgVars>>

NextMerge == MergeApply \/ MergeClear

SpecMerge == InitMerge /\ [][NextMerge]_vars

\* ======================================================================
\* Properties of mergeManagedOriginRequest
\* ======================================================================
\* the managed fields the route specifies, as an object's keys
ManagedFieldsOf(route) ==
  [NoFields EXCEPT
     !["originServerName"] =
       IF route.OriginServerName.set THEN JStr(route.OriginServerName.v) ELSE Absent,
     !["noTLSVerify"] =
       IF route.NoTLSVerify.set THEN JBool(route.NoTLSVerify.v = "true") ELSE Absent]

\* the keys and values of a result; no value has no key
FieldsOf(raw) == IF raw.kind = "obj" THEN raw.fields ELSE NoFields

\* C24 as stated: for an existing value that is absent or an object, the
\* result has each managed field the route specifies with the desired
\* value, no managed field the route does not specify, and every other
\* key of the existing object with its value; merging the result again
\* with no managed field specified gives the existing object without its
\* managed keys.
C24_AsStated ==
  (mrgExisting.kind \in {"nil", "obj"} /\ mrgPC \in {"merged", "cleared"}) =>
    /\ mrgFirst.kind \in {"nil", "obj"}
    /\ FieldsOf(mrgFirst) =
         [ManagedFieldsOf(mrgRoute) EXCEPT
            !["connectTimeout"] = FieldsOf(mrgExisting)["connectTimeout"]]
    /\ mrgPC = "cleared" =>
         FieldsOf(mrgSecond) =
           [NoFields EXCEPT
              !["connectTimeout"] = FieldsOf(mrgExisting)["connectTimeout"]]

\* C25 as stated: for an existing value that is not an object (rejected
\* bytes, or null) the merge does not abort, the existing value is
\* discarded, and the result holds exactly the managed fields the route
\* specifies, none when it specifies none.
C25_AsStated ==
  (mrgExisting.kind \in {"invalid", "null"} /\ mrgPC \in {"merged", "cleared"}) =>
    /\ mrgFirst.kind \in {"nil", "obj"}
    /\ FieldsOf(mrgFirst) = ManagedFieldsOf(mrgRoute)

\* ======================================================================
\* The label parser: Parser.ParseContainers
\* ======================================================================
\* A label key cloudflare.tunnel.<field> or cloudflare.tunnel.<field>.<suffix>
\* is kept as the pair of its field and its suffix, the suffix empty for
\* the label of the base route.
LabelKey(field, suffix) == [field |-> field, suffix |-> suffix]

\* docker.ContainerInfo
ContainerInfo(id, name, labels) == [ID |-> id, Name |-> name, Labels |-> labels]

\* _, ok := labels[key]
HasLabel(labels, field, suffix) == LabelKey(field, suffix) \in DOMAIN labels

\* labels[key]: the empty string for a key that is not set
Label(labels, field, suffix) ==
  IF HasLabel(labels, field, suffix) THEN labels[LabelKey(field, suffix)] ELSE Empty

\* strconv.ParseBool
ParseBool(str) ==
  IF str \in {<<49>>, <<116>>, <<84>>, <<84, 82, 85, 69>>, <<116, 114, 117, 101>>, <<84, 114, 117, 101>>}
  THEN [ok |-> TRUE, value |-> TRUE]
  ELSE IF str \in {<<48>>, <<102>>, <<70>>, <<70, 65, 76, 83, 69>>, <<102, 97, 108, 115, 101>>, <<70, 97, 108, 115, 101>>}
  THEN [ok |-> TRUE, value |-> FALSE]
  ELSE [ok |-> FALSE, value |-> FALSE]

\* strings.HasPrefix
HasPrefix(str, prefix) ==
  Len(str) >= Len(prefix) /\ SubSeq(str, 1, Len(prefix)) = prefix

\* collectSuffixes
collectSuffixes(labels, baseLabel) ==
  {k.suffix : k \in {q \in DOMAIN labels : q.field = baseLabel /\ q.suffix # Empty}}

\* sortedSuffixes
sortedSuffixes(set) == SortStringSeq(SetToSeq(set))

\* parseOriginLabels
parseOriginLabels(labels, suffix) ==
  IF /\ HasLabel(labels, "origin.server-name", suffix)
     /\ TrimSpace(Label(labels, "origin.server-name", suffix)) = Empty
  THEN [ok |-> FALSE, osn |-> None, ntv |-> None]
  ELSE IF /\ HasLabel(labels, "origin.no-tls-verify", suffix)
          /\ ~ParseBool(TrimSpace(Label(labels, "origin.no-tls-verify", suffix))).ok
  THEN [ok |-> FALSE, osn |-> None, ntv |-> None]
  ELSE [ok |-> TRUE,
        osn |-> IF HasLabel(labels, "origin.server-name", suffix)
                THEN Some(TrimSpace(Label(labels, "origin.server-name", suffix)))
                ELSE None,
        ntv |-> IF HasLabel(labels, "origin.no-tls-verify", suffix)
                THEN Some(ParseBool(TrimSpace(
                            Label(labels, "origin.no-tls-verify", suffix))).value)
                ELSE None]

\* model.SourceRef
SourceRef(container) == [ContainerID |-> container.ID, ContainerName |-> container.Name]

\* model.RouteSpec as the parser builds it, with the container it comes from
SourcedRouteSpec(hostname, path, service, origin, source) ==
  [Key |-> RouteKey(hostname, path), Service |-> service,
   OriginServerName |-> origin.osn, NoTLSVerify |-> origin.ntv, Source |-> source]

\* one error of the errors result: its kind, the container and the label or
\* route key it names
ParseError(kind, container, about) ==
  [kind |-> kind, container |-> container.Name, about |-> about]

WithError(st, err) == [st EXCEPT !.errors = Append(@, err)]

\* an append that lets a later definition take the place of the first
appendRouteSpec_Overwrites(st, route, suffix) ==
  IF route.Key \in st.keys
  THEN [st EXCEPT
          !.calls = Append(@, [route |-> route, suffix |-> suffix]),
          !.desired = [i \in 1..Len(@) |-> IF @[i].Key = route.Key THEN route ELSE @[i]]]
  ELSE [st EXCEPT
          !.calls = Append(@, [route |-> route, suffix |-> suffix]),
          !.keys = @ \cup {route.Key},
          !.desired = Append(@, route)]

\* appendRouteSpec, with the error it returns appended to errors as both
\* callers do; st carries desired, desiredKeys, errors and the calls made
appendRouteSpec(st, route, suffix) ==
  IF route.Key \in st.keys
  THEN [st EXCEPT
          !.calls = Append(@, [route |-> route, suffix |-> suffix]),
          !.errors = Append(@, [kind |-> "duplicate",
                                container |-> route.Source.ContainerName,
                                about |-> RouteKeyString(route.Key)])]
  ELSE [st EXCEPT
          !.calls = Append(@, [route |-> route, suffix |-> suffix]),
          !.keys = @ \cup {route.Key},
          !.desired = Append(@, route)]

\* ParseContainers, lines 101-115: the errors for the suffixes that have a
\* hostname label without a service label, then for those that have a
\* service label without a hostname label
RECURSIVE UnmatchedSuffixes(_, _, _, _, _)
UnmatchedSuffixes(st, container, list, others, field) ==
  IF list = <<>> THEN st
  ELSE UnmatchedSuffixes(
         IF Head(list) \in others THEN st
         ELSE WithError(st, ParseError("unmatched", container,
                                       LabelKey(field, Head(list)))),
         container, Tail(list), others, field)

\* ParseContainers, lines 117-160: the body of the suffix loop
SuffixStep(st, container, suffix) ==
  IF suffix \notin collectSuffixes(container.Labels, "service") THEN st
  ELSE IF TrimSpace(Label(container.Labels, "hostname", suffix)) = Empty
  THEN WithError(st, ParseError("empty", container, LabelKey("hostname", suffix)))
  ELSE IF TrimSpace(Label(container.Labels, "service", suffix)) = Empty
  THEN WithError(st, ParseError("empty", container, LabelKey("service", suffix)))
  ELSE IF /\ TrimSpace(Label(container.Labels, "path", suffix)) # Empty
          /\ ~HasPrefix(TrimSpace(Label(container.Labels, "path", suffix)), <<47>>)
  THEN WithError(st, ParseError("path", container, LabelKey("path", suffix)))
  ELSE IF ~parseOriginLabels(container.Labels, suffix).ok
  THEN WithError(st, ParseError("origin", container, LabelKey("origin", suffix)))
  ELSE appendRouteSpec(st,
         SourcedRouteSpec(TrimSpace(Label(container.Labels, "hostname", suffix)),
                          TrimSpace(Label(container.Labels, "path", suffix)),
                          TrimSpace(Label(container.Labels, "service", suffix)),
                          parseOriginLabels(container.Labels, suffix),
                          SourceRef(container)),
         suffix)

\* ParseContainers, lines 117-160: the suffix loop over hostSuffixList
RECURSIVE SuffixLoop(_, _, _)
SuffixLoop(st, container, list) ==
  IF list = <<>> THEN st
  ELSE SuffixLoop(SuffixStep(st, container, Head(list)), container, Tail(list))

\* ParseContainers, lines 98-160: what follows the base route of a container
SuffixRoutes(st, container) ==
  SuffixLoop(
    UnmatchedSuffixes(
      UnmatchedSuffixes(st, container,
                        sortedSuffixes(collectSuffixes(container.Labels, "hostname")),
                        collectSuffixes(container.Labels, "service"), "hostname"),
      container, sortedSuffixes(collectSuffixes(container.Labels, "service")),
      collectSuffixes(container.Labels, "hostname"), "service"),
    container, sortedSuffixes(collectSuffixes(container.Labels, "hostname")))

\* ParseContainers, lines 49-161: the body of the container loop
ContainerStep(st, container) ==
  IF ~HasLabel(container.Labels, "enable", Empty) THEN st
  ELSE IF ~ParseBool(Label(container.Labels, "enable", Empty)).ok
  THEN WithError(st, ParseError("invalid", container, LabelKey("enable", Empty)))
  ELSE IF ~ParseBool(Label(container.Labels, "enable", Empty)).value THEN st
  ELSE IF TrimSpace(Label(container.Labels, "hostname", Empty)) = Empty
  THEN WithError(st, ParseError("missing", container, LabelKey("hostname", Empty)))
  ELSE IF TrimSpace(Label(container.Labels, "service", Empty)) = Empty
  THEN WithError(st, ParseError("missing", container, LabelKey("service", Empty)))
  ELSE IF /\ TrimSpace(Label(container.Labels, "path", Empty)) # Empty
          /\ ~HasPrefix(TrimSpace(Label(container.Labels, "path", Empty)), <<47>>)
  THEN WithError(st, ParseError("path", container, LabelKey("path", Empty)))
  ELSE IF ~parseOriginLabels(container.Labels, Empty).ok
  THEN WithError(st, ParseError("origin", container, LabelKey("origin", Empty)))
  ELSE SuffixRoutes(
         appendRouteSpec(st,
           SourcedRouteSpec(TrimSpace(Label(container.Labels, "hostname", Empty)),
                            TrimSpace(Label(container.Labels, "path", Empty)),
                            TrimSpace(Label(container.Labels, "service", Empty)),
                            parseOriginLabels(container.Labels, Empty),
                            SourceRef(container)),
           Empty),
         container)

\* sort.Slice by ID; the identifiers of a container listing are pairwise
\* different, so the order of the result is determined
RECURSIVE InsertByID(_, _)
InsertByID(c, sorted) ==
  IF sorted = <<>> THEN <<c>>
  ELSE IF StrLess(c.ID, Head(sorted).ID) THEN <<c>> \o sorted
  ELSE <<Head(sorted)>> \o InsertByID(c, Tail(sorted))

RECURSIVE SortByID(_)
SortByID(cs) ==
  IF cs = <<>> THEN <<>>
  ELSE InsertByID(cs[Len(cs)], SortByID(SubSeq(cs, 1, Len(cs) - 1)))

\* ------------------------------------------------------- parser inputs
MaxContainers == 3

\* "web" (ID "2b"): a.example.com with an origin server name, and a
\* hostname label with suffix q that has no service label
ContainerWeb ==
  ContainerInfo(<<50, 98>>, <<119, 101, 98>>,
    (LabelKey("enable", Empty) :> <<116, 114, 117, 101>>)
    @@ (LabelKey("hostname", Empty) :> h_a)
    @@ (LabelKey("service", Empty) :> <<104, 116, 116, 112, 58, 47, 47, 119, 101, 98, 58, 56, 48>>)
    @@ (LabelKey("origin.server-name", Empty) :> <<111, 114, 105, 103, 105, 110, 46, 105, 110, 116, 101, 114, 110, 97, 108>>)
    @@ (LabelKey("hostname", <<113>>) :> h_au))

\* "api" (ID "1a"): " a.example.com" and, with suffixes a and b,
\* b.example.com twice
ContainerApi ==
  ContainerInfo(<<49, 97>>, <<97, 112, 105>>,
    (LabelKey("enable", Empty) :> <<116, 114, 117, 101>>)
    @@ (LabelKey("hostname", Empty) :> <<32>> \o h_a)
    @@ (LabelKey("service", Empty) :> <<104, 116, 116, 112, 58, 47, 47, 97, 112, 105, 58, 56, 48>>)
    @@ (LabelKey("hostname", <<98>>) :> h_b)
    @@ (LabelKey("service", <<98>>) :> <<104, 116, 116, 112, 58, 47, 47, 97, 112, 105, 58, 56, 49>>)
    @@ (LabelKey("hostname", <<97>>) :> h_b)
    @@ (LabelKey("service", <<97>>) :> <<104, 116, 116, 112, 58, 47, 47, 97, 112, 105, 58, 56, 50>>))

\* "cache" (ID "3c"): b.example.com/x, with suffix x a path without slash,
\* with suffix y b.example.com/x again and TLS verification off
ContainerCache ==
  ContainerInfo(<<51, 99>>, <<99, 97, 99, 104, 101>>,
    (LabelKey("enable", Empty) :> <<49>>)
    @@ (LabelKey("hostname", Empty) :> h_b)
    @@ (LabelKey("path", Empty) :> p_x)
    @@ (LabelKey("service", Empty) :> <<104, 116, 116, 112, 58, 47, 47, 99, 97, 99, 104, 101, 58, 56, 48>>)
    @@ (LabelKey("hostname", <<120>>) :> h_a)
    @@ (LabelKey("path", <<120>>) :> <<120>>)
    @@ (LabelKey("service", <<120>>) :> <<104, 116, 116, 112, 58, 47, 47, 99, 97, 99, 104, 101, 58, 56, 48>>)
    @@ (LabelKey("hostname", <<121>>) :> h_b)
    @@ (LabelKey("path", <<121>>) :> p_x \o <<32>>)
    @@ (LabelKey("service", <<121>>) :> <<104, 116, 116, 112, 58, 47, 47, 99, 97, 99, 104, 101, 58, 56, 49>>)
    @@ (LabelKey("origin.no-tls-verify", <<121>>) :> <<116, 114, 117, 101>>))

\* "off" (ID "4d"): an enable label that is no boolean
ContainerOff ==
  ContainerInfo(<<52, 100>>, <<111, 102, 102>>,
    (LabelKey("enable", Empty) :> <<121, 101, 115>>)
    @@ (LabelKey("hostname", Empty) :> h_a)
    @@ (LabelKey("service", Empty) :> <<104, 116, 116, 112, 58, 47, 47, 119, 101, 98, 58, 56, 48>>))

\* "bad" (ID "0f"): a base route without service, and a suffix route
ContainerBad ==
  ContainerInfo(<<48, 102>>, <<98, 97, 100>>,
    (LabelKey("enable", Empty) :> <<116, 114, 117, 101>>)
    @@ (LabelKey("hostname", Empty) :> h_b)
    @@ (LabelKey("hostname", <<122>>) :> h_au)
    @@ (LabelKey("service", <<122>>) :> <<104, 116, 116, 112, 58, 47, 47, 119, 101, 98, 58, 56, 48>>))

ContainerUniverse ==
  {ContainerWeb, ContainerApi, ContainerCache, ContainerOff, ContainerBad}

\* a container listing, in any order, names each container once
ContainerLists ==
  {cs \in SeqsUpTo(ContainerUniverse, MaxContainers) :
     \A i, j \in 1..Len(cs) : cs[i].ID = cs[j].ID => i = j}

\* ParseContainers is called with a container listing
InitParser ==
  /\ routes = <<>>
  /\ dryRun = FALSE
  /\ prsContainers \in ContainerLists
  /\ prsPC = "start"
  /\ prsSorted = <<>>
  /\ prsIdx = 0
  /\ prsDesired = <<>>
  /\ prsKeys = {}
  /\ prsErrors = <<>>
  /\ prsCalls = <<>>
  /\ IngressIdle
  /\ DNSIdle
  /\ AccessIdle
  /\ ControllerIdle
  /\ MergeIdle
  /\ ConfigIdle

\* ParseContainers, lines 40-47: the empty results and the sorted copy
ParseSort ==
  /\ prsPC = "start"
  /\ prsSorted' = SortByID(prsContainers)
  /\ prsIdx' = 1
  /\ prsPC' = "loop"
  /\ UNCHANGED <<routes, dryRun, prsContainers, prsDesired, prsKeys, prsErrors,
                 prsCalls, ingVars, dnsVars, accVars, ctlVars, mrgVars, cfgVars>>

\* the state an iteration of the container loop leaves
ParseApply(st) ==
  /\ prsDesired' = st.desired
  /\ prsKeys' = st.keys
  /\ prsErrors' = st.errors
  /\ prsCalls' = st.calls

\* ParseContainers: one iteration of the container loop
ParseContainer ==
  /\ prsPC = "loop"
  /\ prsIdx <= Len(prsSorted)
  /\ ParseApply(ContainerStep([desired |-> prsDesired, keys |-> prsKeys,
                               errors |-> prsErrors, calls |-> prsCalls],
                              prsSorted[prsIdx]))
  /\ prsIdx' = prsIdx + 1
  /\ UNCHANGED <<routes, dryRun, prsContainers, prsPC, prsSorted, ingVars, dnsVars,
                 accVars, ctlVars, mrgVars, cfgVars>>

\* ParseContainers, line 163: return desired, errors
ParseReturn ==
  /\ prsPC = "loop"
  /\ prsIdx > Len(prsSorted)
  /\ prsPC' = "done"
  /\ UNCHANGED <<routes, dryRun, prsContainers, prsSorted, prsIdx, prsDesired,
                 prsKeys, prsErrors, prsCalls, ingVars, dnsVars, accVars, ctlVars,
                 mrgVars, cfgVars>>

NextParser == ParseSort \/ ParseContainer \/ ParseReturn

SpecParser == InitParser /\ [][NextParser]_vars

\* ======================================================================
\* Properties of the label parser
\* ======================================================================
\* the calls of appendRouteSpec whose key no earlier call had
FirstDefinitions ==
  {i \in 1..Len(prsCalls) :
     \A j \in 1..(i - 1) : prsCalls[j].route.Key # prsCalls[i].route.Key}

\* the calls follow the container identifiers in ascending order, and
\* within a container the base route comes before the suffix routes
VisitedInOrder ==
  \A i, j \in 1..Len(prsCalls) :
    i < j =>
      \/ StrLess(prsCalls[i].route.Source.ContainerID,
                 prsCalls[j].route.Source.ContainerID)
      \/ /\ prsCalls[i].route.Source.ContainerID = prsCalls[j].route.Source.ContainerID
         /\ prsCalls[j].suffix # Empty

\* the duplicate-route errors, in order
DuplicateErrors == SelectSeq(prsErrors, LAMBDA e : e.kind = "duplicate")

\* the routes of the calls that were not first definitions, in order
RECURSIVE RepeatedFrom(_)
RepeatedFrom(i) ==
  IF i > Len(prsCalls) THEN <<>>
  ELSE (IF i \in FirstDefinitions THEN <<>> ELSE <<prsCalls[i].route>>)
       \o RepeatedFrom(i + 1)

\* the routes of the calls that were first definitions, in order
RECURSIVE FirstFrom(_)
FirstFrom(i) ==
  IF i > Len(prsCalls) THEN <<>>
  ELSE (IF i \in FirstDefinitions THEN <<prsCalls[i].route>> ELSE <<>>)
       \o FirstFrom(i + 1)

\* C30: ParseContainers never holds two routes with the same (hostname,
\* path) key, whatever the container list and its order are: the
\* definitions are visited by ascending container ID, base route before
\* suffix routes, the routes kept are the first definitions of their keys,
\* unchanged and in that order, and every definition that repeats a key is
\* answered with a duplicate-route error naming the key.
C30_FirstDefinitionWins ==
  /\ UniqueKeys(prsDesired)
  /\ VisitedInOrder
  /\ prsDesired = FirstFrom(1)
  /\ Len(DuplicateErrors) = Len(RepeatedFrom(1))
  /\ \A k \in 1..Len(DuplicateErrors) :
       /\ DuplicateErrors[k].about = RouteKeyString(RepeatedFrom(1)[k].Key)
       /\ DuplicateErrors[k].container = RepeatedFrom(1)[k].Source.ContainerName

\* ParseContainers has returned for the listing [web, cache, api]: the
\* route of a.example.com is the one of "api", the container with the
\* lowest ID, the definition of "web" was rejected, and so were the second
\* definitions of b.example.com and of b.example.com/x inside "api" and
\* "cache"
C30_Witness ==
  /\ prsPC = "done"
  /\ prsContainers = <<ContainerWeb, ContainerCache, ContainerApi>>
  /\ Len(prsDesired) = 3
  /\ prsDesired[1].Key = RouteKey(h_a, Empty)
  /\ prsDesired[1].Source.ContainerName = <<97, 112, 105>>
  /\ prsDesired[2].Service = <<104, 116, 116, 112, 58, 47, 47, 97, 112, 105, 58, 56, 50>>
  /\ prsDesired[3].Key = RouteKey(h_b, p_x)
  /\ prsDesired[3].NoTLSVerify = None
  /\ Len(DuplicateErrors) = 3

\* ======================================================================
\* The ingress reconciler over the whole configuration document
\* ======================================================================
\* values of the other top-level keys: none, one spaced, two of mixed spacing
ConfigOtherUniverse ==
  { [k \in OtherConfigKeys |-> AbsentValue],
    [k \in OtherConfigKeys |->
       IF k = "warp-routing" THEN RawValue("{enabled:true}", FALSE) ELSE AbsentValue],
    [k \in OtherConfigKeys |->
       IF k = "warp-routing" THEN RawValue("{enabled:false}", TRUE)
                             ELSE RawValue("{connectTimeout:30}", FALSE)] }

ConfigIngressLists ==
  { <<CatchAll>>,
    <<IngressRule(h_b, Empty, "http://b", NilRaw), CatchAll>>,
    <<IngressRule(h_a, Empty, "http://a:80", NilRaw), CatchAll>>,
    <<IngressRule(h_a, p_x, "http://ax", NilRaw),
      IngressRule(h_a, Empty, "http://a:80", NilRaw), CatchAll>> }

ConfigDocuments ==
  {ConfigDocument(TRUE, rules, other) :
     rules \in ConfigIngressLists, other \in ConfigOtherUniverse}
  \cup {ConfigDocument(FALSE, <<>>, other) : other \in ConfigOtherUniverse}

InitConfig ==
  /\ routes \in {rs \in SeqsUpTo(RouteUniverse, MaxRoutes) : UniqueKeys(rs)}
  /\ dryRun \in BOOLEAN
  /\ manageTunnel \in BOOLEAN
  /\ cfgRemote \in ConfigDocuments
  /\ cfgPC = "start"
  /\ cfgConfig = TunnelConfig(<<>>, EmptyDocument)
  /\ cfgRaced = FALSE
  /\ cfgCalls = <<>>
  /\ tunnelIngress = <<>>
  /\ ingPC = "off"
  /\ ingPass = 0
  /\ ingConfig = <<>>
  /\ ingWrite = <<>>
  /\ ingRemoved = <<>>
  /\ ingCalls = <<>>
  /\ ingErr = FALSE
  /\ DNSIdle
  /\ AccessIdle
  /\ ControllerIdle
  /\ MergeIdle
  /\ ParserIdle

CfgCall(op, document, ok) == [op |-> op, document |-> document, ok |-> ok]

\* Engine.Reconcile up to the write: Client.GetConfig, buildDesiredIngress,
\* ingressEqual and the gates
ConfigGetConfig ==
  /\ cfgPC = "start"
  /\ \E ok \in BOOLEAN :
       /\ cfgCalls' = Append(cfgCalls, CfgCall("GetConfig", EmptyDocument, ok))
       /\ IF ~ok
          THEN /\ cfgPC' = "failed"
               /\ UNCHANGED cfgConfig
          ELSE LET config == GetConfig(cfgRemote)
                   desiredIngress == buildDesiredIngress(routes, config.Ingress)
                   decision ==
                     IngressDecision(ingressEqual(config.Ingress, desiredIngress),
                                     manageTunnel, dryRun)
               IN /\ cfgConfig' = config
                  /\ cfgPC' = IF decision = "write" THEN "write" ELSE "done"
  /\ UNCHANGED <<routes, dryRun, cfgRemote, cfgRaced, ingVars, dnsVars, accVars,
                 ctlVars, mrgVars, prsVars>>

\* another client of the API replaces the document while the pass is
\* between its read and its write
ConfigOtherWriter ==
  /\ cfgPC = "write"
  /\ ~cfgRaced
  /\ \E document \in ConfigDocuments :
       /\ document # cfgRemote
       /\ cfgRemote' = document
       /\ cfgCalls' = Append(cfgCalls, CfgCall("OtherUpdate", document, TRUE))
  /\ cfgRaced' = TRUE
  /\ UNCHANGED <<routes, dryRun, cfgPC, cfgConfig, ingVars, dnsVars, accVars,
                 ctlVars, mrgVars, prsVars>>

\* Engine.Reconcile: config.Ingress = desiredIngress; Client.UpdateConfig
ConfigUpdateConfig ==
  /\ cfgPC = "write"
  /\ LET desiredIngress == buildDesiredIngress(routes, cfgConfig.Ingress)
         payload == configPayload(TunnelConfig(desiredIngress, cfgConfig.Raw))
     IN \E ok \in BOOLEAN :
          /\ cfgCalls' = Append(cfgCalls, CfgCall("UpdateConfig", payload, ok))
          /\ cfgRemote' = IF ok THEN payload ELSE cfgRemote
          /\ cfgPC' = IF ok THEN "written" ELSE "failed"
  /\ UNCHANGED <<routes, dryRun, cfgConfig, cfgRaced, ingVars, dnsVars, accVars,
                 ctlVars, mrgVars, prsVars>>

NextConfig == ConfigGetConfig \/ ConfigOtherWriter \/ ConfigUpdateConfig

SpecConfig == InitConfig /\ [][NextConfig]_vars

\* ======================================================================
\* Properties of the write of the configuration document
\* ======================================================================
\* the documents other writers stored since the read of the pass
OtherUpdates ==
  {i \in 1..Len(cfgCalls) : cfgCalls[i].op = "OtherUpdate"}

\* the writes of the pass
ConfigWrites ==
  {i \in 1..Len(cfgCalls) : cfgCalls[i].op = "UpdateConfig"}

\* C33: the write is a read-modify-write without concurrency check: once
\* UpdateConfig has succeeded, the live rule list is the list the pass built
\* from its own read, also when another writer replaced the live list
\* between the read and the write; the write is issued all the same.
C33_LastWriteWins ==
  /\ cfgPC = "written" =>
       /\ cfgRemote.ingress.present
       /\ cfgRemote.ingress.rules = buildDesiredIngress(routes, cfgConfig.Ingress)
       /\ cfgRemote.ingress = cfgCalls[Len(cfgCalls)].document.ingress
  /\ \A i \in ConfigWrites :
       cfgCalls[i].document.ingress.rules
         = buildDesiredIngress(routes, cfgConfig.Ingress)

\* another writer changed the live list after the read, to a list that is
\* neither the one read nor the one emitted, and the write replaced it
C33_Witness ==
  /\ cfgPC = "written"
  /\ \E i \in OtherUpdates :
       /\ cfgCalls[i].document.ingress.present
       /\ cfgCalls[i].document.ingress.rules # cfgConfig.Ingress
       /\ cfgCalls[i].document.ingress.rules # cfgRemote.ingress.rules
       /\ ~ingressEqual(cfgCalls[i].document.ingress.rules, cfgRemote.ingress.rules)

\* C38: a write of the pass carries every other top-level key the read of
\* the pass returned, with the JSON value the read returned, and no other
\* key besides "ingress".
C38_OtherKeysWrittenBack ==
  \A i \in ConfigWrites :
    /\ cfgCalls[i].document.ingress.present
    /\ \A k \in OtherConfigKeys :
         /\ cfgCalls[i].document.other[k].present = cfgConfig.Raw.other[k].present
         /\ cfgCalls[i].document.other[k].json = cfgConfig.Raw.other[k].json

\* a write that changed the rule list, of a document read with two other
\* keys, one of them in bytes the encoder does not leave as they are
C38_Witness ==
  /\ cfgPC = "written"
  /\ cfgConfig.Raw.ingress.present
  /\ cfgRemote.ingress.rules # cfgConfig.Ingress
  /\ \A k \in OtherConfigKeys : cfgConfig.Raw.other[k].present
  /\ \E k \in OtherConfigKeys :
       /\ ~cfgConfig.Raw.other[k].compact
       /\ cfgRemote.other[k] # cfgConfig.Raw.other[k]
       /\ cfgRemote.other[k].json = cfgConfig.Raw.other[k].json

\* ======================================================================
\* The three reconcilers and their reads
\* ======================================================================
\* one of the reconcilers is started, the others stay idle
InitReads == InitConfig \/ InitDNSAdopt \/ InitAccessShared

NextReads == NextConfig \/ NextDNS \/ NextAccess

SpecReads == InitReads /\ [][NextReads]_vars

\* positions in the DNS call log of the zone listings that failed
FailedZoneListings ==
  {i \in 1..Len(dnsCalls) :
     /\ dnsCalls[i].op = "ListDNSRecords"
     /\ dnsCalls[i].name = Empty
     /\ ~dnsCalls[i].ok}

\* the zone loop of the pass has called ListDNSRecords for the zone
ZoneListingIssued(zone) ==
  \E j \in 1..Len(dnsCalls) :
    /\ dnsCalls[j].op = "ListDNSRecords"
    /\ dnsCalls[j].name = Empty
    /\ dnsCalls[j].zone = zone.ID

\* C39: a failed GetConfig, ListZones, ListAccessApps or ListAccessPolicies
\* is the last call of its pass, the pass returns an error and no call
\* that changes the remote precedes it; after a failed listing of the
\* records of one zone no further call of the pass names that zone, every
\* zone of the account is still listed by the end of the pass, and the DNS
\* reconciler returns no error.
C39_FailedReads ==
  /\ \A i \in 1..Len(cfgCalls) :
       (cfgCalls[i].op = "GetConfig" /\ ~cfgCalls[i].ok) =>
         /\ i = Len(cfgCalls)
         /\ cfgPC = "failed"
         /\ ConfigWrites = {}
  /\ \A i \in 1..Len(dnsCalls) :
       (dnsCalls[i].op = "ListZones" /\ ~dnsCalls[i].ok) =>
         /\ i = Len(dnsCalls)
         /\ dnsPC = "done" /\ dnsErr
         /\ \A j \in 1..Len(dnsCalls) : dnsCalls[j].op \notin DNSMutations
  /\ \A i \in 1..Len(accCalls) :
       (accCalls[i].op \in {"ListAccessApps", "ListAccessPolicies"} /\ ~accCalls[i].ok) =>
         /\ i = Len(accCalls)
         /\ accPC = "done" /\ accErr
         /\ \A j \in 1..Len(accCalls) : accCalls[j].op \notin AccessWrites
  /\ \A i \in FailedZoneListings :
       /\ \A j \in 1..Len(dnsCalls) : j > i => dnsCalls[j].zone # dnsCalls[i].zone
       /\ dnsPC = "done" =>
            /\ ~dnsErr
            /\ \A z \in 1..Len(dnsOrdered) : ZoneListingIssued(dnsOrdered[z])

\* a finished DNS pass over two zones: the listing of the first zone
\* failed, the second zone was listed and a record was written in it, and
\* Reconcile returned no error
C39_Witness ==
  /\ dnsPC = "done" /\ ~dnsErr
  /\ Len(dnsOrdered) = 2
  /\ \E i \in FailedZoneListings :
       /\ dnsCalls[i].zone = dnsOrdered[1].ID
       /\ \E j \in 1..Len(dnsCalls) :
            /\ j > i
            /\ dnsCalls[j].zone = dnsOrdered[2].ID
            /\ dnsCalls[j].op \in DNSMutations
            /\ dnsCalls[j].ok
====
